---- MODULE Spec2Model ----
(***************************************************************************)
(* Rollup store, persist endpoint and weekly collectors of the Notion      *)
(* life tracker.                                                           *)
(*                                                                         *)
(* Conventions of the model:                                               *)
(*  - a calendar day "YYYY-MM-DD" is a day number; the code compares the   *)
(*    ISO strings lexicographically, which is the order of day numbers;    *)
(*  - an instant (new Date()) is a number of clock ticks, InstantsPerDay   *)
(*    of them per UTC day;                                                 *)
(*  - a template string such as `blood_sugar-${start}-${end}` is the tuple *)
(*    of its parts;                                                        *)
(*  - avg (one decimal) is held in tenths, avgEntriesPerDay and macro avg  *)
(*    (two decimals) in hundredths;                                        *)
(*  - a JSON text is a record [kind, body]; an optional value is a         *)
(*    sequence of length 0 or 1.                                           *)
(***************************************************************************)
EXTENDS Integers, Sequences, FiniteSets, TLC

\* ---------------------------------------------------------------- bounds
FirstToday == 7
InstantsPerDay == 2
MaxTicks == 1
MaxRollupId == 3
MaxBadgeId == 3

\* ------------------------------------------------------ program constants
XP_PER_ENTRY == 12
STREAK_BONUS_TENTHS == 12
HEALTHY_AVG_BONUS_TENTHS == 12
HEALTHY_AVG_THRESHOLD == 100
WEEK_BACK == 6

VARIABLES
  now,              \* the clock read by new Date()
  schema,           \* TRUE once initRollupSchema has created the tables
  weekly_rollups,   \* rows of table weekly_rollups_1
  rollup_seq,       \* AUTOINCREMENT counter of weekly_rollups_1
  badge_events,     \* rows of table badge_events_1
  badge_seq,        \* AUTOINCREMENT counter of badge_events_1
  notion_updates,   \* updateNotionPage calls issued so far
  pc,               \* position of each handler invocation
  mem,              \* local variables of each handler invocation
  response,         \* outcome of the last invocation: HTTP status, -1 thrown, 0 none
  lastApplied,      \* history: the rollup of the last executed upsert
  lastWrite,        \* history: per (category, periodStart), last rollup upserted
  lastWriter,       \* history: per (category, periodStart), who upserted last
  writes,           \* history: per (category, periodStart), number of upserts
  issued,           \* history: upserts executed by the current invocation
  appended,         \* history: badge events inserted, in order
  repeated,         \* history: the last upsert repeated the one before it
  replaced,         \* history: per (category, periodStart), the row last replaced
  month_in,         \* arguments of a monthly aggregation
  month_out,        \* its result, once computed
  call,             \* a call of a function of the shared logic: its name and arguments
  result            \* what the call returned, once it has

store == <<schema, weekly_rollups, rollup_seq, badge_events, badge_seq>>
written == <<lastApplied, lastWrite, lastWriter, writes, repeated, replaced>>
hist == <<written, issued, appended>>
pure == <<month_in, month_out, call, result>>
vars == <<now, store, notion_updates, pc, mem, response, hist, pure>>

BsProcs == {"bs1", "bs2"}
FoodProcs == {"food1"}
PersistProcs == {"persist1"}
Collectors == BsProcs \cup FoodProcs
ReportProcs == {"report1"}
Procs == Collectors \cup PersistProcs \cup ReportProcs

\* ------------------------------------------------------------ arithmetic
\* Math.round(n / d) for n >= 0, d > 0
RoundDiv(n, d) == (2 * n + d) \div (2 * d)

RECURSIVE SumSeq(_)
SumSeq(s) == IF s = <<>> THEN 0 ELSE Head(s) + SumSeq(Tail(s))

MinOf(S) == CHOOSE x \in S : \A y \in S : x <= y
MaxOf(S) == CHOOSE x \in S : \A y \in S : x >= y
Range(s) == {s[i] : i \in DOMAIN s}

\* ------------------------------------------------------- shared/date.ts
toDateOnly(instant) == instant \div InstantsPerDay

getWeeklyRange(instant) ==
  [start |-> toDateOnly(instant) - WEEK_BACK, end |-> toDateOnly(instant)]

\* new Date(`${date}T00:00:00Z`)
ParseDate(date) == date * InstantsPerDay

\* the while loop of listDateRange: push the cursor's day, move it a day on
RECURSIVE DatesFrom(_, _)
DatesFrom(cursor, endDate) ==
  IF cursor <= endDate
  THEN <<toDateOnly(cursor)>> \o DatesFrom(cursor + InstantsPerDay, endDate)
  ELSE <<>>

daysBetweenInclusive(start, end) ==
  ((ParseDate(end) - ParseDate(start)) \div InstantsPerDay) + 1

\* the loop stops before the end date (cursor < endDate)
listDateRange_Exclusive(start, end) ==
  DatesFrom(ParseDate(start), ParseDate(end) - 1)

\* the cursor starts a day late
listDateRange_Late(start, end) ==
  DatesFrom(ParseDate(start) + InstantsPerDay, ParseDate(end))

\* inverted bounds are put in order
listDateRange_Corrected(start, end) ==
  IF end < start THEN DatesFrom(ParseDate(end), ParseDate(start))
  ELSE DatesFrom(ParseDate(start), ParseDate(end))

listDateRange(start, end) == DatesFrom(ParseDate(start), ParseDate(end))

countEntriesByDate(entries) ==
  [d \in {entries[i].date : i \in DOMAIN entries} |->
     Cardinality({i \in DOMAIN entries : entries[i].date = d})]

\* dateCounts[date] ?? 0
CountOn(dateCounts, date) ==
  IF date \in DOMAIN dateCounts THEN dateCounts[date] ELSE 0

\* the for loop of calculateCurrentStreak, from index i down to the break
RECURSIVE StreakFrom(_, _, _)
StreakFrom(dateRange, dateCounts, i) ==
  IF i < 1 THEN 0
  ELSE IF CountOn(dateCounts, dateRange[i]) > 0
       THEN 1 + StreakFrom(dateRange, dateCounts, i - 1)
       ELSE 0

\* no break: every day with entries counts
calculateCurrentStreak_NoBreak(dateRange, dateCounts) ==
  Cardinality({i \in DOMAIN dateRange : CountOn(dateCounts, dateRange[i]) > 0})

calculateCurrentStreak(dateRange, dateCounts) ==
  StreakFrom(dateRange, dateCounts, Len(dateRange))

\* ------------------------------------------- shared/blood_sugar_logic.ts
\* the length alone: the days' counts are not looked at
hasPerfectWeekStreak_LengthOnly(dateRange, dateCounts) ==
  Len(dateRange) >= 7

hasPerfectWeekStreak(dateRange, dateCounts) ==
  /\ Len(dateRange) >= 7
  /\ \A i \in DOMAIN dateRange : CountOn(dateCounts, dateRange[i]) >= 2

\* the two bonuses add up instead of multiplying
calculateXp_Additive(totalCount, avg, perfectWeekStreak) ==
  LET baseXp == totalCount * XP_PER_ENTRY
      streakBonus == IF perfectWeekStreak THEN STREAK_BONUS_TENTHS ELSE 10
      healthyAvgBonus == IF avg > 0 /\ avg < HEALTHY_AVG_THRESHOLD * 10
                         THEN HEALTHY_AVG_BONUS_TENTHS ELSE 10
  IN IF baseXp = 0 THEN 0
     ELSE RoundDiv(baseXp * (streakBonus + healthyAvgBonus - 10), 10)

\* avg is in tenths; baseXp * 1.2 and baseXp * 1.44 are never half-way
\* between two integers, so Math.round of the double is the exact rounding
calculateXp(totalCount, avg, perfectWeekStreak) ==
  LET baseXp == totalCount * XP_PER_ENTRY
      streakBonus == IF perfectWeekStreak THEN STREAK_BONUS_TENTHS ELSE 10
      healthyAvgBonus == IF avg > 0 /\ avg < HEALTHY_AVG_THRESHOLD * 10
                         THEN HEALTHY_AVG_BONUS_TENTHS ELSE 10
  IN IF baseXp = 0 THEN 0
     ELSE RoundDiv(baseXp * streakBonus * healthyAvgBonus, 100)

\* the full-week badge takes the place of the consistency badge
buildBadges_ElseIf(dateRange, dateCounts, totalCount, avg, perfectWeekStreak) ==
  (IF totalCount >= 14 THEN <<"Cage Match: Full Week">>
   ELSE IF totalCount >= 7 THEN <<"Mandy-Mode Consistency">> ELSE <<>>)
  \o (IF perfectWeekStreak THEN <<"Cage Match: Double-Check Champion">> ELSE <<>>)
  \o (IF avg > 0 /\ avg < HEALTHY_AVG_THRESHOLD * 10
      THEN <<"National Treasure: Healthy Average">> ELSE <<>>)

buildBadges(dateRange, dateCounts, totalCount, avg, perfectWeekStreak) ==
  (IF totalCount >= 7 THEN <<"Mandy-Mode Consistency">> ELSE <<>>)
  \o (IF totalCount >= 14 THEN <<"Cage Match: Full Week">> ELSE <<>>)
  \o (IF perfectWeekStreak THEN <<"Cage Match: Double-Check Champion">> ELSE <<>>)
  \o (IF avg > 0 /\ avg < HEALTHY_AVG_THRESHOLD * 10
      THEN <<"National Treasure: Healthy Average">> ELSE <<>>)

\* the text of a date: year, month and day joined by hyphens; every day of
\* the model is written as a day of January 2026
DateString(date) == <<"2026", "-", "01", "-", date>>

\* `blood_sugar-${start}-${end}`
bloodSugarRunId(start, end) ==
  <<"blood_sugar", "-">> \o DateString(start) \o <<"-">> \o DateString(end)

buildBloodSugarRollup(entries, start, end) ==
  LET values == [i \in DOMAIN entries |-> entries[i].value]
      count == Len(values)
      avg == IF count > 0 THEN RoundDiv(SumSeq(values) * 10, count) ELSE 0
      min == IF count > 0 THEN MinOf(Range(values)) ELSE 0
      max == IF count > 0 THEN MaxOf(Range(values)) ELSE 0
      dateCounts == countEntriesByDate(entries)
      dateRange == listDateRange(start, end)
      expected == Len(dateRange) * 2
      missing == IF expected - count > 0 THEN expected - count ELSE 0
      completionRate == IF expected # 0 THEN RoundDiv(count * 100, expected) ELSE 0
      currentStreak == calculateCurrentStreak(dateRange, dateCounts)
      perfectWeekStreak == hasPerfectWeekStreak(dateRange, dateCounts)
  IN [category |-> "blood_sugar",
      periodStart |-> start,
      periodEnd |-> end,
      streak |-> currentStreak,
      completionRate |-> completionRate,
      xp |-> calculateXp(count, avg, perfectWeekStreak),
      badges |-> buildBadges(dateRange, dateCounts, count, avg, perfectWeekStreak),
      stats |-> [totalEntries |-> count, avg |-> avg, min |-> min, max |-> max,
                 entriesByDate |-> dateCounts, expected |-> expected,
                 missing |-> missing],
      runId |-> bloodSugarRunId(start, end)]

\* ------------------------------------------------ shared/food_enrich.ts
MacroKey == {"calories", "protein", "carbs", "fat", "fiber", "sugar", "sodium"}

CORE_MACROS == {"calories", "protein", "carbs", "fat"}

shouldEnrich(entry) == \E key \in CORE_MACROS : key \notin DOMAIN entry.macros

PROPERTY_NAMES(key) == IF key = "fat" THEN "fats" ELSE key

\* one Notion number property per macro that is present, under its column name
buildNutritionProperties(macros) ==
  [name \in {PROPERTY_NAMES(key) : key \in DOMAIN macros} |->
     macros[CHOOSE key \in DOMAIN macros : PROPERTY_NAMES(key) = name]]

\* an entry without the attribute counts as one that reports 0
calculateMacroSummary_MissingAsZero(entries) ==
  LET keys == UNION {DOMAIN entries[i].macros : i \in DOMAIN entries}
      total(key) == SumSeq([i \in DOMAIN entries |->
                              IF key \in DOMAIN entries[i].macros
                              THEN entries[i].macros[key] ELSE 0])
  IN [key \in keys |->
        [count |-> Len(entries),
         total |-> total(key),
         avg |-> RoundDiv(total(key) * 100, Len(entries))]]

calculateMacroSummary(entries) ==
  LET keys == UNION {DOMAIN entries[i].macros : i \in DOMAIN entries}
      vals(key) == SelectSeq([i \in DOMAIN entries |->
                                IF key \in DOMAIN entries[i].macros
                                THEN <<entries[i].macros[key]>> ELSE <<>>],
                             LAMBDA v : v # <<>>)
      total(key) == SumSeq([i \in DOMAIN vals(key) |-> vals(key)[i][1]])
  IN [key \in keys |->
        [count |-> Len(vals(key)),
         total |-> total(key),
         avg |-> RoundDiv(total(key) * 100, Len(vals(key)))]]

foodRunId_NoEnd(start, end) ==
  <<"food", "-">> \o DateString(start)

\* `food-${start}-${end}`
foodRunId(start, end) ==
  <<"food", "-">> \o DateString(start) \o <<"-">> \o DateString(end)

buildFoodRollup(entries, start, end) ==
  LET dateRange == listDateRange(start, end)
      entriesByDate == countEntriesByDate(entries)
      perDay == {CountOn(entriesByDate, dateRange[i]) : i \in DOMAIN dateRange}
      uniqueDays == Cardinality({i \in DOMAIN dateRange :
                                   CountOn(entriesByDate, dateRange[i]) > 0})
      totalEntries == Len(entries)
      len == Len(dateRange)
  IN [category |-> "food",
      periodStart |-> start,
      periodEnd |-> end,
      streak |-> calculateCurrentStreak(dateRange, entriesByDate),
      completionRate |-> IF len # 0 THEN RoundDiv(uniqueDays * 100, len) ELSE 0,
      xp |-> 0,
      badges |-> <<>>,
      stats |-> [totalEntries |-> totalEntries,
                 uniqueDays |-> uniqueDays,
                 entriesByDate |-> entriesByDate,
                 avgEntriesPerDay |-> IF len # 0 THEN RoundDiv(totalEntries * 100, len) ELSE 0,
                 minEntriesPerDay |-> IF len # 0 THEN MinOf(perDay) ELSE 0,
                 maxEntriesPerDay |-> IF len # 0 THEN MaxOf(perDay) ELSE 0,
                 macroSummary |-> calculateMacroSummary(entries)],
      runId |-> foodRunId(start, end)]

\* ---------------------------------------------------- storage/rollups.ts
JSONstringifyArray(items) == [kind |-> "array", body |-> items]
JSONstringifyObject(fields) == [kind |-> "object", body |-> fields]

\* a wider constraint: UNIQUE(category, period_start, period_end)
UniqueKey_WithPeriodEnd(row) == <<row.category, row.period_start, row.period_end>>

\* UNIQUE(category, period_start)
UniqueKey(row) == <<row.category, row.period_start>>

\* the nine positional arguments of the INSERT OR REPLACE statement
upsertArgs(rollup, createdAt) ==
  [category |-> rollup.category,
   period_start |-> rollup.periodStart,
   period_end |-> rollup.periodEnd,
   streak |-> rollup.streak,
   completion_rate |-> rollup.completionRate,
   xp |-> rollup.xp,
   badges_json |-> JSONstringifyArray(rollup.badges),
   stats_json |-> JSONstringifyObject(rollup.stats),
   created_at |-> createdAt]

WithId(id, args) == [id |-> id] @@ args

\* a plain INSERT with no constraint to resolve
InsertOrReplace_NoDelete(table, id, args) == table \cup {WithId(id, args)}

\* INSERT OR IGNORE: a conflicting row keeps the statement from inserting
InsertOrReplace_Ignore(table, id, args) ==
  IF \E row \in table : <<row.category, row.period_start>> = <<args.category, args.period_start>>
  THEN table ELSE table \cup {WithId(id, args)}

\* ON CONFLICT DO UPDATE that leaves stats_json out of its SET list
InsertOrReplace_KeepStats(table, id, args) ==
  LET old == {row \in table : <<row.category, row.period_start>> = <<args.category, args.period_start>>}
  IN (table \ old) \cup
     {WithId(id, IF old = {} THEN args
                 ELSE [args EXCEPT !.stats_json = (CHOOSE row \in old : TRUE).stats_json])}

\* INSERT OR REPLACE: rows that conflict on the UNIQUE key are deleted, then
\* the new row is inserted under a fresh AUTOINCREMENT id
InsertOrReplace(table, id, args) ==
  {row \in table : UniqueKey(row) # UniqueKey(args)} \cup {WithId(id, args)}

\* the six positional arguments of the INSERT into badge_events_1
badgeArgs(event) ==
  [category |-> event.category,
   badge |-> event.badge,
   period_start |-> event.periodStart,
   period_end |-> event.periodEnd,
   awarded_at |-> event.awardedAt,
   reason |-> IF "reason" \in DOMAIN event THEN <<event.reason>> ELSE <<>>]

\* an insert that skips an event already stored
Insert_Dedup(table, id, args) ==
  IF \E row \in table : [c \in DOMAIN args |-> row[c]] = args
  THEN table ELSE table \cup {WithId(id, args)}

Insert(table, id, args) == table \cup {WithId(id, args)}

RECURSIVE OrderByPeriodStart(_)
OrderByPeriodStart(rows) ==
  IF rows = {} THEN <<>>
  ELSE LET first == CHOOSE r \in rows :
                      \A q \in rows : <<r.period_start, r.id>> = <<q.period_start, q.id>>
                                      \/ r.period_start < q.period_start
                                      \/ (r.period_start = q.period_start /\ r.id < q.id)
       IN <<first>> \o OrderByPeriodStart(rows \ {first})

\* the table after the first n rollups of the list have been upserted
RECURSIVE UpsertAll(_, _)
UpsertAll(rollups, n) ==
  IF n = 0 THEN {}
  ELSE InsertOrReplace(UpsertAll(rollups, n - 1), n,
                       upsertArgs(rollups[n], FirstToday * InstantsPerDay))

\* the WHERE clause keeps every row whose period overlaps the range
getWeeklyRollups_Overlap(table, category, start, end) ==
  OrderByPeriodStart({row \in table : /\ row.category = category
                                      /\ row.period_start <= end
                                      /\ row.period_end >= start})

getWeeklyRollups(table, category, start, end) ==
  OrderByPeriodStart({row \in table : /\ row.category = category
                                      /\ row.period_start >= start
                                      /\ row.period_end <= end})

\* -------------------------------- services/monthly_report_page.http.tsx
safeParseJsonArray(value) == IF value.kind = "array" THEN value.body ELSE <<>>
safeParseJsonObject(value) == IF value.kind = "object" THEN value.body ELSE <<>>

\* String(undefined)
UndefinedString == <<"undefined">>

rowToRollup(row) ==
  [category |-> row.category,
   periodStart |-> row.period_start,
   periodEnd |-> row.period_end,
   streak |-> row.streak,
   completionRate |-> row.completion_rate,
   xp |-> row.xp,
   badges |-> safeParseJsonArray(row.badges_json),
   stats |-> safeParseJsonObject(row.stats_json),
   runId |-> IF "run_id" \in DOMAIN row THEN row.run_id ELSE UndefinedString]

\* the rollups a range query yields once its rows are converted
queryRange(table, category, start, end) ==
  LET rows == getWeeklyRollups(table, category, start, end)
  IN [i \in DOMAIN rows |-> rowToRollup(rows[i])]

\* the columns of weekly_rollups_1 as initRollupSchema creates it
WeeklyRollupColumns ==
  {"id", "category", "period_start", "period_end", "streak", "completion_rate",
   "xp", "badges_json", "stats_json", "created_at"}

\* the columns the SELECT of fetchRollups names
fetchRollupsColumns ==
  {"category", "period_start", "period_end", "streak", "completion_rate", "xp",
   "badges_json", "stats_json", "run_id"}

\* the rows the WHERE clause of fetchRollups keeps, in ORDER BY period_start,
\* converted by rowToRollup
fetchRollups(table, start, end, includePartialWeeks) ==
  LET rows == OrderByPeriodStart(
                {row \in table :
                   IF includePartialWeeks
                   THEN row.period_start <= end /\ row.period_end >= start
                   ELSE row.period_start >= start /\ row.period_end <= end})
  IN [i \in DOMAIN rows |-> rowToRollup(rows[i])]

\* ------------------------------------------------ shared/monthly_report.ts
\* strict mode leaves out a rollup that starts on the first day of the month
filterRollups_After(rollups, monthStart, monthEnd, includePartialWeeks) ==
  SelectSeq(rollups, LAMBDA rollup :
    IF includePartialWeeks
    THEN rollup.periodStart <= monthEnd /\ rollup.periodEnd >= monthStart
    ELSE rollup.periodStart > monthStart /\ rollup.periodEnd <= monthEnd)

\* nothing is filtered out
filterRollups_All(rollups, monthStart, monthEnd, includePartialWeeks) == rollups

\* the two modes exchanged
filterRollups_Swapped(rollups, monthStart, monthEnd, includePartialWeeks) ==
  SelectSeq(rollups, LAMBDA rollup :
    IF includePartialWeeks
    THEN rollup.periodStart >= monthStart /\ rollup.periodEnd <= monthEnd
    ELSE rollup.periodStart <= monthEnd /\ rollup.periodEnd >= monthStart)

filterRollups(rollups, monthStart, monthEnd, includePartialWeeks) ==
  SelectSeq(rollups, LAMBDA rollup :
    IF includePartialWeeks
    THEN rollup.periodStart <= monthEnd /\ rollup.periodEnd >= monthStart
    ELSE rollup.periodStart >= monthStart /\ rollup.periodEnd <= monthEnd)

\* stats.entriesByDate ?? {}
EntriesOf(stats) == IF "entriesByDate" \in DOMAIN stats THEN stats.entriesByDate ELSE <<>>

\* overlapping days added up
PreferLarger_Sum(merged, date, count) ==
  IF date \notin DOMAIN merged THEN count ELSE merged[date] + count

\* current === undefined ? count : Math.max(current, count)
PreferLarger(merged, date, count) ==
  IF date \notin DOMAIN merged THEN count
  ELSE IF merged[date] >= count THEN merged[date] ELSE count

RECURSIVE MergeInto(_, _, _, _)
MergeInto(merged, rollups, monthStart, monthEnd) ==
  IF rollups = <<>> THEN merged
  ELSE LET entries == EntriesOf(Head(rollups).stats)
           kept == {date \in DOMAIN entries : ~(date < monthStart \/ date > monthEnd)}
           next == [date \in DOMAIN merged \cup kept |->
                      IF date \in kept THEN PreferLarger(merged, date, entries[date])
                      ELSE merged[date]]
       IN MergeInto(next, Tail(rollups), monthStart, monthEnd)

mergeEntriesByDate(rollups, monthStart, monthEnd) ==
  MergeInto(<<>>, rollups, monthStart, monthEnd)

RECURSIVE sumValues(_)
sumValues(record) ==
  IF DOMAIN record = {} THEN 0
  ELSE LET key == CHOOSE k \in DOMAIN record : TRUE
       IN record[key] + sumValues([k \in DOMAIN record \ {key} |-> record[k]])

\* Array.from(badgeSet): badges in order of first insertion
RECURSIVE BadgeSetOf(_, _)
BadgeSetOf(seen, badges) ==
  IF badges = <<>> THEN seen
  ELSE BadgeSetOf(IF Head(badges) \in Range(seen) THEN seen ELSE Append(seen, Head(badges)),
                  Tail(badges))

RECURSIVE Flatten(_)
Flatten(lists) == IF lists = <<>> THEN <<>> ELSE Head(lists) \o Flatten(Tail(lists))

\* options.includePartialWeeks ?? false
includePartialWeeksOf(options) ==
  IF "includePartialWeeks" \in DOMAIN options THEN options.includePartialWeeks ELSE FALSE

\* the mean of the rollups' averages, every rollup weighing the same
weightedAverage_Unweighted(filtered) ==
  LET count(i) == IF "totalEntries" \in DOMAIN filtered[i].stats
                  THEN filtered[i].stats.totalEntries ELSE 0
      weighted == {i \in DOMAIN filtered : "avg" \in DOMAIN filtered[i].stats /\ count(i) > 0}
      weightedSum == SumSeq([i \in DOMAIN filtered |->
                               IF i \in weighted THEN filtered[i].stats.avg ELSE 0])
      weightedCount == Cardinality(weighted)
  IN IF weightedCount # 0 THEN RoundDiv(weightedSum, weightedCount) ELSE 0

\* weightedSum / weightedCount of the loop over filtered, in tenths, the exact
\* quotient rounded to a tenth with a half going up
weightedAverage(filtered) ==
  LET count(i) == IF "totalEntries" \in DOMAIN filtered[i].stats
                  THEN filtered[i].stats.totalEntries ELSE 0
      weighted == {i \in DOMAIN filtered : "avg" \in DOMAIN filtered[i].stats /\ count(i) > 0}
      weightedSum == SumSeq([i \in DOMAIN filtered |->
                               IF i \in weighted THEN filtered[i].stats.avg * count(i) ELSE 0])
      weightedCount == SumSeq([i \in DOMAIN filtered |->
                                 IF i \in weighted THEN count(i) ELSE 0])
  IN IF weightedCount # 0 THEN RoundDiv(weightedSum, weightedCount) ELSE 0

\* the exact quotient weightedSum / weightedCount lies halfway between two tenths
weightedTie(filtered) ==
  LET count(i) == IF "totalEntries" \in DOMAIN filtered[i].stats
                  THEN filtered[i].stats.totalEntries ELSE 0
      weighted == {i \in DOMAIN filtered : "avg" \in DOMAIN filtered[i].stats /\ count(i) > 0}
      weightedSum == SumSeq([i \in DOMAIN filtered |->
                               IF i \in weighted THEN filtered[i].stats.avg * count(i) ELSE 0])
      weightedCount == SumSeq([i \in DOMAIN filtered |->
                                 IF i \in weighted THEN count(i) ELSE 0])
  IN weightedCount # 0 /\ (2 * weightedSum) % (2 * weightedCount) = weightedCount

\* Number((weightedSum / weightedCount).toFixed(1)). weightedSum is a double:
\* every avg * count and every += is rounded, so the quotient carries the
\* rounding errors of the sum in the order the terms were added. toFixed(1)
\* rounds the double it is given: a quotient that is exactly halfway between
\* two tenths is printed as the upper or the lower tenth as the accumulated
\* error left the double above or below the half (90.0 * 2 + 85.7 * 3 +
\* 96.8 * 9 over 14 prints 93.5, 96.8 * 9 + 90.0 * 2 + 85.7 * 3 over 14 prints
\* 93.4); any other quotient is further from a half than the error and prints
\* as the nearest tenth. The errors are not tracked: at a half both tenths
\* are outcomes.
weightedAverages(filtered) ==
  IF weightedTie(filtered)
  THEN {weightedAverage(filtered) - 1, weightedAverage(filtered)}
  ELSE {weightedAverage(filtered)}

\* the summary but for its average, which is that of the exact quotient
aggregateBloodSugarMonth(rollups, monthStart, monthEnd, options) ==
  LET dateRange == listDateRange(monthStart, monthEnd)
      filtered == filterRollups(rollups, monthStart, monthEnd, includePartialWeeksOf(options))
      entriesByDate == mergeEntriesByDate(filtered, monthStart, monthEnd)
      totalEntries == sumValues(entriesByDate)
      mins == {filtered[i].stats.min : i \in {j \in DOMAIN filtered : "min" \in DOMAIN filtered[j].stats}}
      maxs == {filtered[i].stats.max : i \in {j \in DOMAIN filtered : "max" \in DOMAIN filtered[j].stats}}
      expected == Len(dateRange) * 2
  IN [monthStart |-> monthStart,
      monthEnd |-> monthEnd,
      rollupsIncluded |-> Len(filtered),
      totalEntries |-> totalEntries,
      average |-> weightedAverage(filtered),
      min |-> IF mins # {} THEN MinOf(mins) ELSE 0,
      max |-> IF maxs # {} THEN MaxOf(maxs) ELSE 0,
      completionRate |-> IF expected # 0 THEN RoundDiv(totalEntries * 100, expected) ELSE 0,
      streak |-> calculateCurrentStreak(dateRange, entriesByDate),
      xp |-> SumSeq([i \in DOMAIN filtered |-> filtered[i].xp]),
      badges |-> BadgeSetOf(<<>>, Flatten([i \in DOMAIN filtered |-> filtered[i].badges])),
      entriesByDate |-> entriesByDate]

\* the summaries aggregateBloodSugarMonth may return
aggregateBloodSugarMonthOutcomes(rollups, monthStart, monthEnd, options) ==
  {[aggregateBloodSugarMonth(rollups, monthStart, monthEnd, options) EXCEPT !.average = average] :
     average \in weightedAverages(filterRollups(rollups, monthStart, monthEnd,
                                                includePartialWeeksOf(options)))}

\* existing.count += value.count; existing.total += value.total; avg recomputed
RECURSIVE MacroInto(_, _)
MacroInto(summary, rollups) ==
  IF rollups = <<>> THEN summary
  ELSE LET stats == Head(rollups).stats
           macroSummary == IF "macroSummary" \in DOMAIN stats THEN stats.macroSummary ELSE <<>>
           sum(key, field) == (IF key \in DOMAIN summary THEN summary[key][field] ELSE 0)
                              + macroSummary[key][field]
           next == [key \in DOMAIN summary \cup DOMAIN macroSummary |->
                      IF key \in DOMAIN macroSummary
                      THEN [count |-> sum(key, "count"),
                            total |-> sum(key, "total"),
                            avg |-> IF sum(key, "count") # 0
                                    THEN RoundDiv(sum(key, "total") * 100, sum(key, "count"))
                                    ELSE 0]
                      ELSE summary[key]]
       IN MacroInto(next, Tail(rollups))

aggregateMacroSummary(rollups) == MacroInto(<<>>, rollups)

aggregateFoodMonth(rollups, monthStart, monthEnd, options) ==
  LET dateRange == listDateRange(monthStart, monthEnd)
      filtered == filterRollups(rollups, monthStart, monthEnd, includePartialWeeksOf(options))
      entriesByDate == mergeEntriesByDate(filtered, monthStart, monthEnd)
      totalEntries == sumValues(entriesByDate)
      uniqueDays == Cardinality({date \in DOMAIN entriesByDate : entriesByDate[date] > 0})
      perDay == {CountOn(entriesByDate, dateRange[i]) : i \in DOMAIN dateRange}
      len == Len(dateRange)
  IN [monthStart |-> monthStart,
      monthEnd |-> monthEnd,
      rollupsIncluded |-> Len(filtered),
      totalEntries |-> totalEntries,
      uniqueDays |-> uniqueDays,
      avgEntriesPerDay |-> IF len # 0 THEN RoundDiv(totalEntries * 100, len) ELSE 0,
      minEntriesPerDay |-> IF len # 0 THEN MinOf(perDay) ELSE 0,
      maxEntriesPerDay |-> IF len # 0 THEN MaxOf(perDay) ELSE 0,
      completionRate |-> IF len # 0 THEN RoundDiv(uniqueDays * 100, len) ELSE 0,
      streak |-> calculateCurrentStreak(dateRange, entriesByDate),
      macroSummary |-> aggregateMacroSummary(filtered),
      entriesByDate |-> entriesByDate]

\* ------------------------------------------------------------ the inputs
\* what the event source may return for a window (a Notion snapshot)
BloodSugarSnapshots(start, end) ==
  {<<>>,
   <<[date |-> end, value |-> 90]>>,
   <<[date |-> end - 1, value |-> 90], [date |-> end, value |-> 111]>>}

FoodSnapshots(start, end) ==
  {<<>>,
   <<[pageId |-> "page-1", date |-> end, food |-> "toast",
      macros |-> [key \in {"calories"} |-> 100]]>>,
   <<[pageId |-> "page-2", date |-> end - 1, food |-> "eggs",
      macros |-> [key \in CORE_MACROS |-> 12]],
     [pageId |-> "page-1", date |-> end, food |-> "toast",
      macros |-> [key \in {"calories"} |-> 100]]>>}

\* what the nutrition lookup may resolve to: null, or macros
NutritionResults == {<<>>, <<[key \in CORE_MACROS |-> 30]>>}

FirstPeriod == getWeeklyRange(FirstToday * InstantsPerDay)

\* rollups a client may post to the persist endpoint
PayloadRollups ==
  LET built == buildBloodSugarRollup(<<[date |-> FirstPeriod.end, value |-> 90]>>,
                                     FirstPeriod.start, FirstPeriod.end)
  IN {built,
      [built EXCEPT !.periodEnd = FirstPeriod.end + 1, !.streak = 0, !.xp = 0,
                    !.completionRate = 0, !.badges = <<"A">>,
                    !.stats = [totalEntries |-> 0]],
      [built EXCEPT !.periodStart = FirstPeriod.start + 1, !.xp = 24]}

BadgeEventLists ==
  LET ev == [category |-> "blood_sugar", badge |-> "A",
             periodStart |-> FirstPeriod.start, periodEnd |-> FirstPeriod.end,
             awardedAt |-> FirstToday * InstantsPerDay]
  IN {<<ev>>, <<ev, ev @@ [reason |-> "replay"]>>}

\* request bodies: a valid payload with or without badgeEvents, a payload
\* whose badgeEvents is an empty array, and payloads that fail validation
PersistBodies ==
  {[rollup |-> r] : r \in PayloadRollups}
  \cup {[rollup |-> r, badgeEvents |-> evs] :
          r \in PayloadRollups, evs \in BadgeEventLists \cup {<<>>}}
  \cup {[badgeEvents |-> <<>>]}
  \cup {[rollup |-> [category |-> "food", periodStart |-> FirstPeriod.start]]}

\* -------------------------------- services/weekly_rollup_persist.http.tsx
\* env ROLLUP_PERSIST_TOKEN is "secret" when configured
checkAuth(tokenConfigured, header) ==
  IF ~tokenConfigured THEN <<>>
  ELSE IF header # <<"Bearer", "secret">> THEN <<"Unauthorized.">>
  ELSE <<>>

isWeeklyRollup(value) ==
  {"category", "periodStart", "periodEnd", "streak", "completionRate", "xp",
   "badges", "stats", "runId"} \subseteq DOMAIN value

isBadgeEvent(value) ==
  {"category", "badge", "periodStart", "periodEnd", "awardedAt"} \subseteq DOMAIN value

isPersistPayload(value) ==
  /\ "rollup" \in DOMAIN value
  /\ isWeeklyRollup(value.rollup)
  /\ \/ "badgeEvents" \notin DOMAIN value
     \/ \A i \in DOMAIN value.badgeEvents : isBadgeEvent(value.badgeEvents[i])

Headers == {<<>>, <<"Bearer", "secret">>, <<"Bearer", "wrong">>}

\* ------------------------------------------------------------ the state
Mem0 == [range |-> [start |-> 0, end |-> 0], entries |-> <<>>, rollup |-> <<>>,
         args |-> <<>>, i |-> 0, token |-> FALSE, enrichment |-> <<>>,
         enriched |-> 0, events |-> <<>>, includePartialWeeks |-> FALSE]

NoKey == [k \in {} |-> 0]

InitHandlers ==
  /\ now = FirstToday * InstantsPerDay
  /\ schema = FALSE
  /\ weekly_rollups = {}
  /\ rollup_seq = 0
  /\ badge_events = {}
  /\ badge_seq = 0
  /\ notion_updates = {}
  /\ pc = [p \in Procs |-> "idle"]
  /\ mem = [p \in Procs |-> Mem0]
  /\ response = [p \in Procs |-> 0]
  /\ lastApplied = <<>>
  /\ lastWrite = NoKey
  /\ lastWriter = NoKey
  /\ writes = NoKey
  /\ issued = [p \in Procs |-> 0]
  /\ appended = <<>>
  /\ repeated = FALSE
  /\ replaced = NoKey

Init ==
  /\ InitHandlers
  /\ month_in = <<>>
  /\ month_out = <<>>
  /\ call = <<>>
  /\ result = <<>>

\* time passes
Tick ==
  /\ now < FirstToday * InstantsPerDay + MaxTicks
  /\ now' = now + 1
  /\ UNCHANGED <<store, notion_updates, pc, mem, response, hist, pure>>

\* a handler returns a Response: its locals are gone
Return(p, status) ==
  /\ pc' = [pc EXCEPT ![p] = "idle"]
  /\ mem' = [mem EXCEPT ![p] = Mem0]
  /\ response' = [response EXCEPT ![p] = status]

\* a handler starts: the previous response is history
Enter(p, next, locals) ==
  /\ pc' = [pc EXCEPT ![p] = next]
  /\ mem' = [mem EXCEPT ![p] = locals]
  /\ response' = [response EXCEPT ![p] = 0]
  /\ issued' = [issued EXCEPT ![p] = 0]

Goto(p, next, locals) ==
  /\ pc' = [pc EXCEPT ![p] = next]
  /\ mem' = [mem EXCEPT ![p] = locals]
  /\ UNCHANGED response

\* the awaited call of the current position rejects (network, SQL or API
\* error): the handler is left by the exception and nothing is written
Throw(p) ==
  /\ pc[p] \notin {"idle"}
  /\ Return(p, -1)
  /\ UNCHANGED <<now, store, notion_updates, hist, pure>>

\* CREATE TABLE IF NOT EXISTS, twice
initRollupSchema == schema' = TRUE

\* the database executes the INSERT OR REPLACE whose arguments were bound
\* when upsertWeeklyRollup was called
upsertWeeklyRollup(p) ==
  LET args == mem[p].args[1]
      rollup == mem[p].rollup[1]
      key == <<rollup.category, rollup.periodStart>>
  IN /\ rollup_seq < MaxRollupId
     /\ weekly_rollups' = InsertOrReplace(weekly_rollups, rollup_seq + 1, args)
     /\ rollup_seq' = rollup_seq + 1
     /\ lastApplied' = <<rollup>>
     /\ lastWrite' = [k \in DOMAIN lastWrite \cup {key} |->
                        IF k = key THEN rollup ELSE lastWrite[k]]
     /\ lastWriter' = [k \in DOMAIN lastWriter \cup {key} |->
                         IF k = key THEN p ELSE lastWriter[k]]
     /\ writes' = [k \in DOMAIN writes \cup {key} |->
                     IF k = key THEN (IF k \in DOMAIN writes THEN writes[k] ELSE 0) + 1
                     ELSE writes[k]]
     /\ repeated' = (lastApplied = <<rollup>>)
     /\ replaced' = LET old == {row \in weekly_rollups : UniqueKey(row) = UniqueKey(args)}
                    IN IF old = {} THEN replaced
                       ELSE [k \in DOMAIN replaced \cup {key} |->
                               IF k = key THEN CHOOSE row \in old : TRUE ELSE replaced[k]]
     /\ issued' = [issued EXCEPT ![p] = @ + 1]

\* ------------------------------ collectors/blood_sugar_report.cron.tsx
BsMissingSecrets(p) ==
  /\ pc[p] = "idle"
  /\ Return(p, 500)
  /\ issued' = [issued EXCEPT ![p] = 0]
  /\ UNCHANGED <<now, store, notion_updates, written, appended, pure>>

BsStart(p) ==
  /\ pc[p] = "idle"
  /\ Enter(p, "fetch", [Mem0 EXCEPT !.range = getWeeklyRange(now)])
  /\ UNCHANGED <<now, store, notion_updates, written, appended, pure>>

\* fetchEntries resolves, buildReport builds the rollup
BsFetch(p) ==
  /\ pc[p] = "fetch"
  /\ \E entries \in BloodSugarSnapshots(mem[p].range.start, mem[p].range.end) :
       Goto(p, "email",
            [mem[p] EXCEPT !.entries = entries,
                           !.rollup = <<buildBloodSugarRollup(entries, mem[p].range.start,
                                                              mem[p].range.end)>>])
  /\ UNCHANGED <<now, store, notion_updates, hist, pure>>

BsEmail(p) ==
  /\ pc[p] = "email"
  /\ Goto(p, "init", mem[p])
  /\ UNCHANGED <<now, store, notion_updates, hist, pure>>

\* initRollupSchema resolves; upsertWeeklyRollup is called and binds its arguments
BsInit(p) ==
  /\ pc[p] = "init"
  /\ initRollupSchema
  /\ Goto(p, "upsert", [mem[p] EXCEPT !.args = <<upsertArgs(mem[p].rollup[1], now)>>])
  /\ UNCHANGED <<now, weekly_rollups, rollup_seq, badge_events, badge_seq,
                 notion_updates, hist, pure>>

BsUpsert(p) ==
  /\ pc[p] = "upsert"
  /\ upsertWeeklyRollup(p)
  /\ Return(p, 200)
  /\ UNCHANGED <<now, schema, badge_events, badge_seq, notion_updates, appended, pure>>

BloodSugarCollector(p) ==
  \/ BsMissingSecrets(p)
  \/ BsStart(p)
  \/ BsFetch(p)
  \/ BsEmail(p)
  \/ BsInit(p)
  \/ BsUpsert(p)

\* ------------------------------------ collectors/food_report.cron.tsx
\* index of the next entry, from position `from`, whose enrichment is awaited;
\* 0 when the loop runs to its end
NextToEnrich(entries, from) ==
  LET todo == {j \in DOMAIN entries : /\ j >= from
                                      /\ shouldEnrich(entries[j])
                                      /\ entries[j].food \notin {"", "Unknown"}}
  IN IF todo = {} THEN 0 ELSE MinOf(todo)

\* the loop continues synchronously up to its next await
ContinueLoop(p, locals, from) ==
  LET j == NextToEnrich(locals.entries, from)
  IN IF j = 0 THEN Goto(p, "init", [locals EXCEPT !.i = 0])
     ELSE Goto(p, "nutrition", [locals EXCEPT !.i = j])

FoodMissingSecrets(p) ==
  /\ pc[p] = "idle"
  /\ Return(p, 500)
  /\ issued' = [issued EXCEPT ![p] = 0]
  /\ UNCHANGED <<now, store, notion_updates, written, appended, pure>>

FoodStart(p) ==
  /\ pc[p] = "idle"
  /\ \E fatSecretConfig \in BOOLEAN :
       IF fatSecretConfig
       THEN Enter(p, "token", Mem0)
       ELSE Enter(p, "fetch", [Mem0 EXCEPT !.range = getWeeklyRange(now)])
  /\ UNCHANGED <<now, store, notion_updates, written, appended, pure>>

\* requestAccessToken resolves
FoodToken(p) ==
  /\ pc[p] = "token"
  /\ Goto(p, "fetch", [mem[p] EXCEPT !.token = TRUE, !.range = getWeeklyRange(now)])
  /\ UNCHANGED <<now, store, notion_updates, hist, pure>>

FoodFetch(p) ==
  /\ pc[p] = "fetch"
  /\ \E entries \in FoodSnapshots(mem[p].range.start, mem[p].range.end) :
       ContinueLoop(p, [mem[p] EXCEPT !.entries = entries], 1)
  /\ UNCHANGED <<now, store, notion_updates, hist, pure>>

\* fetchNutrition resolves: null without a lookup token, else null or macros
FoodNutrition(p) ==
  /\ pc[p] = "nutrition"
  /\ \E enrichment \in (IF mem[p].token THEN NutritionResults ELSE {<<>>}) :
       IF enrichment = <<>> \/ DOMAIN buildNutritionProperties(enrichment[1]) = {}
       THEN ContinueLoop(p, mem[p], mem[p].i + 1)
       ELSE Goto(p, "update", [mem[p] EXCEPT !.enrichment = enrichment])
  /\ UNCHANGED <<now, store, notion_updates, hist, pure>>

\* updateNotionPage resolves; the entry takes the looked-up macros
FoodUpdate(p) ==
  LET i == mem[p].i
      entry == mem[p].entries[i]
      macros == mem[p].enrichment[1]
  IN /\ pc[p] = "update"
     /\ notion_updates' = notion_updates \cup
          {[pageId |-> entry.pageId, properties |-> buildNutritionProperties(macros)]}
     /\ ContinueLoop(p, [mem[p] EXCEPT !.entries[i].macros = macros @@ entry.macros,
                                       !.enriched = @ + 1,
                                       !.enrichment = <<>>], i + 1)
     /\ UNCHANGED <<now, store, hist, pure>>

\* the rollup built from nothing, before the entries are in
FoodInit_Unfetched(p) ==
  LET rollup == buildFoodRollup(<<>>, mem[p].range.start, mem[p].range.end)
  IN /\ pc[p] = "init"
     /\ initRollupSchema
     /\ Goto(p, "upsert", [mem[p] EXCEPT !.rollup = <<rollup>>,
                                         !.args = <<upsertArgs(rollup, now)>>])
     /\ UNCHANGED <<now, weekly_rollups, rollup_seq, badge_events, badge_seq,
                    notion_updates, hist, pure>>

\* initRollupSchema resolves; the rollup is built, upsertWeeklyRollup is called
FoodInit(p) ==
  LET rollup == buildFoodRollup(mem[p].entries, mem[p].range.start, mem[p].range.end)
  IN /\ pc[p] = "init"
     /\ initRollupSchema
     /\ Goto(p, "upsert", [mem[p] EXCEPT !.rollup = <<rollup>>,
                                         !.args = <<upsertArgs(rollup, now)>>])
     /\ UNCHANGED <<now, weekly_rollups, rollup_seq, badge_events, badge_seq,
                    notion_updates, hist, pure>>

FoodUpsert(p) ==
  /\ pc[p] = "upsert"
  /\ upsertWeeklyRollup(p)
  /\ Return(p, 200)
  /\ UNCHANGED <<now, schema, badge_events, badge_seq, notion_updates, appended, pure>>

FoodCollector(p) ==
  \/ FoodMissingSecrets(p)
  \/ FoodStart(p)
  \/ FoodToken(p)
  \/ FoodFetch(p)
  \/ FoodNutrition(p)
  \/ FoodUpdate(p)
  \/ FoodInit(p)
  \/ FoodUpsert(p)

\* -------------------------------- services/weekly_rollup_persist.http.tsx
\* a request arrives and is checked: method, then token, then body
\* text that req.json() cannot parse
MalformedJson == [kind |-> "malformed", body |-> <<>>]

\* the texts a request body may hold
RequestTexts == {JSONstringifyObject(data) : data \in PersistBodies} \cup {MalformedJson}

\* the payload is validated before the token is checked
Handle_ValidateFirst(p, method, tokenConfigured, header, text) ==
  IF method # "POST" THEN Return(p, 405)
  ELSE IF text.kind = "malformed" THEN Return(p, -1)
  ELSE IF ~isPersistPayload(text.body) THEN Return(p, 400)
  ELSE IF checkAuth(tokenConfigured, header) # <<>> THEN Return(p, 401)
  ELSE /\ pc' = [pc EXCEPT ![p] = "init"]
       /\ response' = [response EXCEPT ![p] = 0]
       /\ mem' = [mem EXCEPT ![p] =
                    [Mem0 EXCEPT !.rollup = <<text.body.rollup>>,
                                 !.events = IF "badgeEvents" \in DOMAIN text.body
                                            THEN text.body.badgeEvents ELSE <<>>]]

\* the handler up to its first write: method, token, body, payload; a body
\* that req.json() cannot parse leaves the handler by the exception
Handle(p, method, tokenConfigured, header, text) ==
  IF method # "POST" THEN Return(p, 405)
  ELSE IF checkAuth(tokenConfigured, header) # <<>> THEN Return(p, 401)
  ELSE IF text.kind = "malformed" THEN Return(p, -1)
  ELSE IF ~isPersistPayload(text.body) THEN Return(p, 400)
  ELSE /\ pc' = [pc EXCEPT ![p] = "init"]
       /\ response' = [response EXCEPT ![p] = 0]
       /\ mem' = [mem EXCEPT ![p] =
                    [Mem0 EXCEPT !.rollup = <<text.body.rollup>>,
                                 !.events = IF "badgeEvents" \in DOMAIN text.body
                                            THEN text.body.badgeEvents ELSE <<>>]]

\* a request arrives; its parts are drawn as the handler reads them: the
\* headers of a POST only, the body of a POST that passes checkAuth only
PersistRequest(p) ==
  /\ pc[p] = "idle"
  /\ \E method \in {"POST", "GET"} :
       IF method # "POST" THEN Handle(p, method, FALSE, <<>>, MalformedJson)
       ELSE \E tokenConfigured \in BOOLEAN, header \in Headers :
         IF checkAuth(tokenConfigured, header) # <<>>
         THEN Handle(p, method, tokenConfigured, header, MalformedJson)
         ELSE \E text \in RequestTexts : Handle(p, method, tokenConfigured, header, text)
  /\ issued' = [issued EXCEPT ![p] = 0]
  /\ UNCHANGED <<now, store, notion_updates, written, appended, pure>>

PersistInit(p) ==
  /\ pc[p] = "init"
  /\ initRollupSchema
  /\ Goto(p, "upsert", [mem[p] EXCEPT !.args = <<upsertArgs(mem[p].rollup[1], now)>>])
  /\ UNCHANGED <<now, weekly_rollups, rollup_seq, badge_events, badge_seq,
                 notion_updates, hist, pure>>

\* the upsert resolves; insertBadgeEvents is entered when there are events
PersistUpsert(p) ==
  /\ pc[p] = "upsert"
  /\ upsertWeeklyRollup(p)
  /\ IF Len(mem[p].events) > 0
     THEN Goto(p, "badge", [mem[p] EXCEPT !.i = 1])
     ELSE Return(p, 200)
  /\ UNCHANGED <<now, schema, badge_events, badge_seq, notion_updates, appended, pure>>

\* one INSERT of insertBadgeEvents
insertBadgeEvent(p) ==
  LET event == mem[p].events[mem[p].i]
  IN /\ pc[p] = "badge"
     /\ badge_seq < MaxBadgeId
     /\ badge_events' = Insert(badge_events, badge_seq + 1, badgeArgs(event))
     /\ badge_seq' = badge_seq + 1
     /\ appended' = Append(appended, event)
     /\ IF mem[p].i = Len(mem[p].events)
        THEN Return(p, 200)
        ELSE Goto(p, "badge", [mem[p] EXCEPT !.i = @ + 1])
     /\ UNCHANGED <<now, schema, weekly_rollups, rollup_seq, notion_updates,
                    written, issued, pure>>

PersistEndpoint(p) ==
  \/ PersistRequest(p)
  \/ PersistInit(p)
  \/ PersistUpsert(p)
  \/ insertBadgeEvent(p)

\* the persist endpoint serving requests, one at a time
Next ==
  \/ Tick
  \/ \E p \in PersistProcs : Throw(p)
  \/ \E p \in PersistProcs : PersistEndpoint(p)

Spec == Init /\ [][Next]_vars

\* two runs of the blood-sugar cron job that may overlap (a retry, a re-run)
NextRace ==
  \/ Tick
  \/ \E p \in BsProcs : Throw(p)
  \/ \E p \in BsProcs : BloodSugarCollector(p)

SpecRace == Init /\ [][NextRace]_vars

\* the two cron jobs, scheduled one after the other; the schedule is followed
\* until MaxCronRollups rollups have been written
MaxCronRollups == 2

Alone(p) == \A q \in Procs \ {p} : pc[q] = "idle"

NextCron ==
  \/ Tick
  \/ \E p \in {"bs1", "food1"} : Alone(p) /\ Throw(p)
  \/ Alone("bs1") /\ rollup_seq < MaxCronRollups /\ BloodSugarCollector("bs1")
  \/ Alone("food1") /\ rollup_seq < MaxCronRollups /\ FoodCollector("food1")

SpecCron == Init /\ [][NextCron]_vars

\* the persist endpoint serving one client, whose request is in call and may
\* be sent again; the table holds what earlier requests left
SeedTables ==
  {UpsertAll(rollups, Len(rollups)) : rollups \in {<<>>} \cup {<<r>> : r \in PayloadRollups}}

PersistCalls ==
  [fn : {"persist"}, method : {"POST", "GET"}, tokenConfigured : BOOLEAN,
   header : Headers, text : RequestTexts, table : SeedTables]

InitPersist ==
  /\ call \in PersistCalls
  /\ result = <<>>
  /\ month_in = <<>>
  /\ month_out = <<>>
  /\ now = FirstToday * InstantsPerDay
  /\ schema = (call.table # {})
  /\ weekly_rollups = call.table
  /\ rollup_seq = Cardinality(call.table)
  /\ badge_events = {}
  /\ badge_seq = 0
  /\ notion_updates = {}
  /\ pc = [p \in Procs |-> "idle"]
  /\ mem = [p \in Procs |-> Mem0]
  /\ response = [p \in Procs |-> 0]
  /\ lastApplied = <<>>
  /\ lastWrite = NoKey
  /\ lastWriter = NoKey
  /\ writes = NoKey
  /\ issued = [p \in Procs |-> 0]
  /\ appended = <<>>
  /\ repeated = FALSE
  /\ replaced = NoKey

\* the client's request arrives
PersistServe(p) ==
  /\ pc[p] = "idle"
  /\ Handle(p, call.method, call.tokenConfigured, call.header, call.text)
  /\ issued' = [issued EXCEPT ![p] = 0]
  /\ UNCHANGED <<now, store, notion_updates, written, appended, pure>>

NextPersist ==
  \/ Throw("persist1")
  \/ PersistServe("persist1")
  \/ PersistInit("persist1")
  \/ PersistUpsert("persist1")
  \/ insertBadgeEvent("persist1")

SpecPersist == InitPersist /\ [][NextPersist]_vars

\* ------------------------------------------------- monthly aggregation
MaxMonthRollups == 3

\* stored weekly rollups as a monthly report may be handed them (January
\* 2026, days numbered from the 1st; 32 is February 1st)
WeekRollup(category, start, end, xp, badges, stats) ==
  [category |-> category, periodStart |-> start, periodEnd |-> end, streak |-> 1,
   completionRate |-> 50, xp |-> xp, badges |-> badges, stats |-> stats,
   runId |-> IF category = "food" THEN foodRunId(start, end)
             ELSE bloodSugarRunId(start, end)]

MonthRollups ==
  {WeekRollup("food", 1, 7, 0, <<>>, [entriesByDate |-> (2 :> 1)]),
   WeekRollup("food", 5, 11, 0, <<>>, [entriesByDate |-> (2 :> 1) @@ (6 :> 2)]),
   WeekRollup("food", 1, 7, 0, <<>>, [entriesByDate |-> (2 :> 3) @@ (6 :> 1)]),
   WeekRollup("blood_sugar", 1, 7, 120, <<"A">>,
              [entriesByDate |-> (1 :> 2), avg |-> 900, min |-> 80, max |-> 110,
               totalEntries |-> 2]),
   WeekRollup("blood_sugar", 8, 14, 60, <<"B">>,
              [entriesByDate |-> (8 :> 2), avg |-> 1100, min |-> 85, max |-> 130,
               totalEntries |-> 2]),
   WeekRollup("blood_sugar", 29, 35, 14, <<"A">>,
              [entriesByDate |-> (30 :> 1) @@ (31 :> 1) @@ (32 :> 3), avg |-> 950,
               min |-> 95, max |-> 95, totalEntries |-> 5]),
   WeekRollup("food", 8, 14, 0, <<>>, <<>>),
   WeekRollup("blood_sugar", 15, 21, 0, <<>>,
              [entriesByDate |-> <<>>, avg |-> 0, min |-> 0, max |-> 0,
               totalEntries |-> 0]),
   WeekRollup("blood_sugar", 15, 21, 36, <<>>,
              [entriesByDate |-> (16 :> 2) @@ (17 :> 1), avg |-> 857, min |-> 85,
               max |-> 87, totalEntries |-> 3]),
   WeekRollup("blood_sugar", 22, 28, 108, <<"C">>,
              [entriesByDate |-> (22 :> 2) @@ (23 :> 2) @@ (24 :> 2) @@ (25 :> 2) @@ (26 :> 1),
               avg |-> 968, min |-> 90, max |-> 104, totalEntries |-> 9]),
   [WeekRollup("food", 25, 31, 0, <<>>, [entriesByDate |-> (29 :> 1) @@ (31 :> 2)])
      EXCEPT !.streak = 7, !.completionRate = 100]}

RollupLists == UNION {[1..n -> MonthRollups] : n \in 0..MaxMonthRollups}

Months == {[start |-> 1, end |-> 31], [start |-> 5, end |-> 31], [start |-> 30, end |-> 31]}

\* the options argument: omitted, or with the flag set either way
MonthOptions == {<<>>, [includePartialWeeks |-> TRUE], [includePartialWeeks |-> FALSE]}

InitMonthly ==
  /\ InitHandlers
  /\ month_in \in [rollups : RollupLists, month : Months, options : MonthOptions]
  /\ month_out = <<>>
  /\ call = <<>>
  /\ result = <<>>

AggregateBloodSugar ==
  /\ month_out = <<>>
  /\ \E summary \in aggregateBloodSugarMonthOutcomes(month_in.rollups, month_in.month.start,
                                                      month_in.month.end, month_in.options) :
       month_out' = <<summary>>
  /\ UNCHANGED <<now, store, notion_updates, pc, mem, response, hist, month_in, call, result>>

AggregateFood ==
  /\ month_out = <<>>
  /\ month_out' = <<aggregateFoodMonth(month_in.rollups, month_in.month.start,
                                       month_in.month.end, month_in.options)>>
  /\ UNCHANGED <<now, store, notion_updates, pc, mem, response, hist, month_in, call, result>>

NextMonthly == AggregateBloodSugar \/ AggregateFood

SpecMonthly == InitMonthly /\ [][NextMonthly]_vars

\* ------------------------------------------- the monthly report page
\* months a request may select: 1 is January 2026, 2 is February 2026
ReportMonths == {1, 2}

resolveMonthRange(selectedMonth) ==
  IF selectedMonth = 1 THEN [start |-> 1, end |-> 31] ELSE [start |-> 32, end |-> 59]

\* a stored JSON column is damaged outside the program: its text no longer
\* parses
Corrupt ==
  /\ \E row \in weekly_rollups, column \in {"badges_json", "stats_json"} :
       /\ row[column].kind # "malformed"
       /\ weekly_rollups' =
            (weekly_rollups \ {row})
            \cup {[row EXCEPT ![column] = [kind |-> "malformed", body |-> <<>>]]}
  /\ UNCHANGED <<now, schema, rollup_seq, badge_events, badge_seq, notion_updates,
                 pc, mem, response, hist, pure>>

\* GET of the page: the month and the partial flag are read from the URL
ReportRequest(p) ==
  /\ pc[p] = "idle"
  /\ \E selectedMonth \in ReportMonths, includePartialWeeks \in BOOLEAN :
       Enter(p, "select",
             [Mem0 EXCEPT !.range = resolveMonthRange(selectedMonth),
                          !.includePartialWeeks = includePartialWeeks])
  /\ UNCHANGED <<now, store, notion_updates, written, appended, pure>>

\* the summaries are kept as a row of the rollup table
ReportSelect_Stored(p) ==
  /\ pc[p] = "select"
  /\ rollup_seq < MaxRollupId
  /\ weekly_rollups' =
       InsertOrReplace(weekly_rollups, rollup_seq + 1,
                       [category |-> "monthly", period_start |-> mem[p].range.start,
                        period_end |-> mem[p].range.end, streak |-> 0,
                        completion_rate |-> 0, xp |-> 0,
                        badges_json |-> JSONstringifyArray(<<>>),
                        stats_json |-> JSONstringifyObject(<<>>), created_at |-> now])
  /\ rollup_seq' = rollup_seq + 1
  /\ Return(p, 200)
  /\ UNCHANGED <<now, schema, badge_events, badge_seq, notion_updates, hist, pure>>

\* the SELECT of fetchRollups resolves: it is rejected when the table does
\* not exist or lacks a column it names and the handler is left by the
\* exception; else the rows are aggregated per category and the page is
\* rendered
ReportSelect(p) ==
  /\ pc[p] = "select"
  /\ IF ~schema \/ ~(fetchRollupsColumns \subseteq WeeklyRollupColumns)
     THEN /\ Return(p, -1)
          /\ UNCHANGED result
     ELSE LET rollups == fetchRollups(weekly_rollups, mem[p].range.start,
                                      mem[p].range.end, mem[p].includePartialWeeks)
              options == [includePartialWeeks |-> mem[p].includePartialWeeks]
          IN /\ \E bloodSugar \in aggregateBloodSugarMonthOutcomes(
                                      SelectSeq(rollups, LAMBDA r : r.category = "blood_sugar"),
                                      mem[p].range.start, mem[p].range.end, options) :
                  result' =
                  <<[bloodSugar |-> bloodSugar,
                     food |->
                       aggregateFoodMonth(
                         SelectSeq(rollups, LAMBDA r : r.category = "food"),
                         mem[p].range.start, mem[p].range.end, options)]>>
             /\ Return(p, 200)
  /\ UNCHANGED <<now, store, notion_updates, hist, month_in, month_out, call>>

ReportPage(p) ==
  \/ ReportRequest(p)
  \/ ReportSelect(p)

\* the aggregations a report runs, as the tests call them
ReportAggregations ==
  {[rollups |-> rollups, month |-> [start |-> 1, end |-> 31],
    options |-> [includePartialWeeks |-> TRUE]] :
     rollups \in {<<>>,
                  <<WeekRollup("food", 1, 7, 0, <<>>, [entriesByDate |-> (2 :> 1)]),
                    WeekRollup("food", 8, 14, 0, <<>>, <<>>)>>,
                  <<WeekRollup("blood_sugar", 1, 7, 120, <<"A">>,
                               [entriesByDate |-> (1 :> 2), avg |-> 900, min |-> 80,
                                max |-> 110, totalEntries |-> 2])>>}}

InitReport ==
  /\ InitHandlers
  /\ month_in \in ReportAggregations
  /\ month_out = <<>>
  /\ call = <<>>
  /\ result = <<>>

\* the blood-sugar cron job writes rollups, a stored column may be damaged,
\* and the page is requested at any time; the aggregators are also called on
\* their own
NextReport ==
  \/ Throw("bs1")
  \/ rollup_seq < MaxCronRollups /\ BloodSugarCollector("bs1")
  \/ Corrupt
  \/ ReportPage("report1")
  \/ AggregateBloodSugar
  \/ AggregateFood

SpecReport == InitReport /\ [][NextReport]_vars

\* ------------------------------------ calls of the shared pure functions
MaxRangeLen == 7
MaxStreakDays == 4
MaxCount == 15

\* entries a day may have, readings an entry may carry, averages in tenths
PerDayCounts == {0, 1, 2, 3}
Readings == {90, 100}
Averages == {0, 1, 950, 999, 1000, 1100}

\* perDay[d] blood-sugar entries on each day d, all with the same reading
RECURSIVE BloodSugarEntries(_, _, _)
BloodSugarEntries(perDay, day, value) ==
  IF day \notin DOMAIN perDay THEN <<>>
  ELSE [i \in 1..perDay[day] |-> [date |-> day, value |-> value]]
       \o BloodSugarEntries(perDay, day + 1, value)

RECURSIVE FoodEntries(_, _)
FoodEntries(perDay, day) ==
  IF day \notin DOMAIN perDay THEN <<>>
  ELSE [i \in 1..perDay[day] |->
          [pageId |-> <<"page", day, i>>, date |-> day, food |-> "toast",
           macros |-> [key \in {"calories"} |-> 100]]]
       \o FoodEntries(perDay, day + 1)

\* the days entries are logged on: those of the range, or day 1 when the
\* range is empty or inverted
LoggedDays(end) == 1..(IF end < 1 THEN 1 ELSE end)

DateCalls ==
  [fn : {"listDateRange", "daysBetweenInclusive"}, start : 1..2, end : -1..(MaxRangeLen + 1)]

StreakCalls ==
  [fn : {"calculateCurrentStreak"},
   dateRange : {[i \in 1..n |-> i] : n \in 0..MaxStreakDays},
   dateCounts : UNION {[D -> 0..2] : D \in SUBSET (1..MaxStreakDays)}]

XpCalls ==
  [fn : {"calculateXp"}, totalCount : 0..MaxCount, avg : Averages, perfectWeekStreak : BOOLEAN]

BadgeCalls ==
  [fn : {"buildBadges"},
   dateRange : {[i \in 1..n |-> i] : n \in {6, 7}},
   dateCounts : {[d \in 1..7 |-> 2], [d \in 1..7 |-> IF d = 7 THEN 1 ELSE 2]},
   totalCount : {0, 6, 7, 13, 14, MaxCount},
   avg : Averages]

\* the attributes an entry may report: none, one, two, or two others
MacroRecords ==
  {<<>>, [key \in {"calories"} |-> 100],
   [key \in {"calories", "protein"} |-> IF key = "calories" THEN 101 ELSE 4],
   [key \in {"protein", "sodium"} |-> IF key = "protein" THEN 5 ELSE 1]}

MaxMacroEntries == 3

\* up to MaxMacroEntries food entries on the first day, each with its macros
MacroEntries ==
  UNION {{[i \in 1..n |-> [pageId |-> <<"page", 1, i>>, date |-> 1, food |-> "toast",
                           macros |-> macros[i]]] :
            macros \in [1..n -> MacroRecords]} : n \in 1..MaxMacroEntries}

\* a builder is called for the range 1..end with the entries of perDay
IsBuilderCall(c) ==
  \E end \in -1..MaxRangeLen :
    \E perDay \in [LoggedDays(end) -> PerDayCounts] :
      \/ \E value \in Readings :
           c = [fn |-> "buildBloodSugarRollup", start |-> 1, end |-> end,
                entries |-> BloodSugarEntries(perDay, 1, value)]
      \/ c = [fn |-> "buildFoodRollup", start |-> 1, end |-> end,
              entries |-> FoodEntries(perDay, 1)]

\* the food builder is called for two days with entries that differ in the
\* attributes they report
IsMacroCall(c) ==
  \E entries \in MacroEntries :
    c = [fn |-> "buildFoodRollup", start |-> 1, end |-> 2, entries |-> entries]

MaxStored == 3

\* tables that up to MaxStored upserts of weekly rollups leave
StoredTables ==
  UNION {{UpsertAll(rollups, n) : rollups \in [1..n -> MonthRollups]} : n \in 0..MaxStored}

\* range queries of either category over a week, two weeks or the month
QueryCalls ==
  [fn : {"getWeeklyRollups"}, table : StoredTables, category : {"blood_sugar", "food"},
   start : {1, 8}, end : {7, 14, 31}]

\* monthly aggregations over January, and over months whose bounds are
\* inverted
MonthCalls ==
  [fn : {"aggregateBloodSugarMonth", "aggregateFoodMonth"},
   rollups : {<<>>,
              <<WeekRollup("food", 1, 7, 0, <<>>, [entriesByDate |-> (2 :> 1)]),
                WeekRollup("food", 5, 11, 0, <<>>, [entriesByDate |-> (2 :> 1) @@ (6 :> 2)])>>,
              <<WeekRollup("blood_sugar", 1, 1, 36, <<>>,
                           [entriesByDate |-> (1 :> 3), avg |-> 900, min |-> 90,
                            max |-> 90, totalEntries |-> 3])>>},
   start : {1, 31},
   end : {1, 31},
   options : MonthOptions]

InitLogic ==
  /\ InitHandlers
  /\ month_in = <<>>
  /\ month_out = <<>>
  /\ \/ call \in DateCalls
     \/ call \in StreakCalls
     \/ call \in XpCalls
     \/ call \in BadgeCalls
     \/ IsBuilderCall(call)
     \/ IsMacroCall(call)
     \/ call \in QueryCalls
     \/ call \in MonthCalls
  /\ result = <<>>

\* the call returns value
Returns(fn, value) ==
  /\ call.fn = fn
  /\ result = <<>>
  /\ result' = <<value>>
  /\ UNCHANGED <<now, store, notion_updates, pc, mem, response, hist, month_in,
                 month_out, call>>

CallListDateRange ==
  Returns("listDateRange", listDateRange(call.start, call.end))

CallDaysBetweenInclusive ==
  Returns("daysBetweenInclusive", daysBetweenInclusive(call.start, call.end))

CallCalculateCurrentStreak ==
  Returns("calculateCurrentStreak", calculateCurrentStreak(call.dateRange, call.dateCounts))

CallCalculateXp ==
  Returns("calculateXp", calculateXp(call.totalCount, call.avg, call.perfectWeekStreak))

\* the badges as buildBloodSugarRollup asks for them: the flag is what
\* hasPerfectWeekStreak says of the range and the counts
CallBuildBadges ==
  Returns("buildBadges",
          buildBadges(call.dateRange, call.dateCounts, call.totalCount, call.avg,
                      hasPerfectWeekStreak(call.dateRange, call.dateCounts)))

CallBuildBloodSugarRollup ==
  Returns("buildBloodSugarRollup", buildBloodSugarRollup(call.entries, call.start, call.end))

CallBuildFoodRollup ==
  Returns("buildFoodRollup", buildFoodRollup(call.entries, call.start, call.end))

CallGetWeeklyRollups ==
  Returns("getWeeklyRollups",
          getWeeklyRollups(call.table, call.category, call.start, call.end))

CallAggregateBloodSugarMonth ==
  /\ call.fn = "aggregateBloodSugarMonth"
  /\ \E summary \in aggregateBloodSugarMonthOutcomes(call.rollups, call.start, call.end,
                                                    call.options) :
       Returns("aggregateBloodSugarMonth", summary)

CallAggregateFoodMonth ==
  Returns("aggregateFoodMonth",
          aggregateFoodMonth(call.rollups, call.start, call.end, call.options))

NextLogic ==
  \/ CallListDateRange
  \/ CallDaysBetweenInclusive
  \/ CallCalculateCurrentStreak
  \/ CallCalculateXp
  \/ CallBuildBadges
  \/ CallBuildBloodSugarRollup
  \/ CallBuildFoodRollup
  \/ CallGetWeeklyRollups
  \/ CallAggregateBloodSugarMonth
  \/ CallAggregateFoodMonth

SpecLogic == InitLogic /\ [][NextLogic]_vars

\* ============================================================ properties
Categories == {"blood_sugar", "food"}

\* the last day a handler can see as today
HorizonDay == toDateOnly(FirstToday * InstantsPerDay + MaxTicks)

RowsFor(key) == {row \in weekly_rollups : row.category = key[1] /\ row.period_start = key[2]}

QueryWindows ==
  {<<start, end>> : start \in {0, FirstPeriod.start + 1},
                    end \in {FirstPeriod.end, HorizonDay + 1}}

\* this step executes an upsert of the very rollup the previous upsert wrote
RepeatsUpsert == rollup_seq' # rollup_seq /\ lastApplied # <<>> /\ lastApplied' = lastApplied

\* C1: after any sequence of upserts the table holds at most one row for
\* each (category, periodStart) pair.
C1_OneRowPerPeriod ==
  \A r1 \in weekly_rollups, r2 \in weekly_rollups :
    (r1.category = r2.category /\ r1.period_start = r2.period_start) => r1 = r2

C1_Witness ==
  \E key \in DOMAIN writes :
    /\ writes[key] >= 2
    /\ Cardinality(RowsFor(key)) = 1
    /\ \E other \in DOMAIN writes : other # key /\ RowsFor(other) # {}

\* C2 as stated: upserting the same rollup a second time leaves every range
\* query returning the same rows (all columns of SELECT *) as after the first.
C2_SameRowsReturned ==
  [][RepeatsUpsert =>
       \A category \in Categories, window \in QueryWindows :
         getWeeklyRollups(weekly_rollups', category, window[1], window[2])
           = getWeeklyRollups(weekly_rollups, category, window[1], window[2])]_vars

\* C2 amended: upserting the same rollup a second time leaves every range
\* query returning the same rollups (the rows converted by rowToRollup) as
\* after the first; only the row's surrogate id and created_at are renewed.
C2_SameRollupsReturned ==
  [][RepeatsUpsert =>
       /\ \A category \in Categories, window \in QueryWindows :
            queryRange(weekly_rollups', category, window[1], window[2])
              = queryRange(weekly_rollups, category, window[1], window[2])
       /\ Cardinality(weekly_rollups') = Cardinality(weekly_rollups)]_vars

C2_Witness ==
  /\ repeated
  /\ \E row \in weekly_rollups :
       /\ row.id = rollup_seq
       /\ row.id >= 3
       /\ rowToRollup(row).stats = lastApplied[1].stats
       /\ Cardinality(weekly_rollups) >= 2

\* C3: once a key has been written, its single row carries the value of the
\* last rollup upserted for it in every field: periodEnd, streak,
\* completionRate, xp, badges and stats.
C3_LastWriteWins ==
  \A key \in DOMAIN lastWrite :
    /\ Cardinality(RowsFor(key)) = 1
    /\ \A row \in RowsFor(key) :
         LET got == rowToRollup(row)
             put == lastWrite[key]
         IN /\ got.periodEnd = put.periodEnd
            /\ got.streak = put.streak
            /\ got.completionRate = put.completionRate
            /\ got.xp = put.xp
            /\ got.badges = put.badges
            /\ got.stats = put.stats

\* a row was replaced by a rollup that differs from it in every field
C3_Witness ==
  \E key \in DOMAIN replaced :
    \E row \in RowsFor(key) :
      /\ row.period_end # replaced[key].period_end
      /\ row.streak # replaced[key].streak
      /\ row.completion_rate # replaced[key].completion_rate
      /\ row.xp # replaced[key].xp
      /\ row.badges_json # replaced[key].badges_json
      /\ row.stats_json # replaced[key].stats_json

\* C4 as stated: a rollup that was upserted is read back, by a range query
\* covering its period, as a record equal to it in every field, runId included.
C4_RoundTrip ==
  \A key \in DOMAIN lastWrite :
    lastWrite[key] \in Range(queryRange(weekly_rollups, key[1],
                                        lastWrite[key].periodStart,
                                        lastWrite[key].periodEnd))

\* C5 as stated: every stored row holds the runId of the rollup upserted into
\* it, and no two stored rows hold the same runId.
C5_RunIdStored ==
  /\ \A row \in weekly_rollups :
       /\ "run_id" \in DOMAIN row
       /\ row.run_id = lastWrite[<<row.category, row.period_start>>].runId
  /\ \A k1 \in DOMAIN lastWrite, k2 \in DOMAIN lastWrite :
       lastWrite[k1].runId = lastWrite[k2].runId => k1 = k2

\* the columns of a row that come from the rollup
Content(row) ==
  <<row.category, row.period_start, row.period_end, row.streak, row.completion_rate,
    row.xp, row.badges_json.body, row.stats_json.body>>

ContentOf(rollup) ==
  <<rollup.category, rollup.periodStart, rollup.periodEnd, rollup.streak,
    rollup.completionRate, rollup.xp, rollup.badges, rollup.stats>>

\* C6: however two collector runs for one (category, periodStart) interleave,
\* the key has one row and the row is, column for column, the rollup of the
\* upsert that executed last.
C6_RaceLastWriteWins ==
  \A key \in DOMAIN lastWriter :
    /\ lastWriter[key] \in BsProcs
    /\ Cardinality(RowsFor(key)) = 1
    /\ \A row \in RowsFor(key) : Content(row) = ContentOf(lastWrite[key])

\* the upsert that executed last was called before the one it replaced, and
\* carried another rollup
C6_Witness ==
  \E key \in DOMAIN replaced :
    \E row \in RowsFor(key) :
      /\ replaced[key].created_at > row.created_at
      /\ replaced[key].stats_json # row.stats_json
      /\ \A p \in BsProcs : pc[p] = "idle" /\ response[p] = 200

RECURSIVE SumXp(_)
SumXp(keys) ==
  IF keys = {} THEN 0
  ELSE LET key == CHOOSE k \in keys : TRUE
       IN lastWrite[key].xp + SumXp(keys \ {key})

\* C7: after any number of runs of the collector the store holds one rollup
\* for each period written, and the month's aggregation counts each period's
\* xp once.
C7_ScoredOnce ==
  LET stored == queryRange(weekly_rollups, "blood_sugar", FirstPeriod.start, HorizonDay)
      summary == aggregateBloodSugarMonth(stored, FirstPeriod.start, HorizonDay, <<>>)
  IN /\ \A key \in DOMAIN writes : Cardinality(RowsFor(key)) = 1
     /\ summary.rollupsIncluded = Cardinality(DOMAIN writes)
     /\ summary.xp = SumXp(DOMAIN writes)

C7_Witness ==
  \E key \in DOMAIN writes :
    /\ writes[key] >= 3
    /\ lastWrite[key].xp > 0
    /\ aggregateBloodSugarMonth(
         queryRange(weekly_rollups, "blood_sugar", FirstPeriod.start, HorizonDay),
         FirstPeriod.start, HorizonDay, <<>>).xp = lastWrite[key].xp

\* the rollup a collector's locals determine
BuiltBy(p) ==
  IF p \in BsProcs
  THEN buildBloodSugarRollup(mem[p].entries, mem[p].range.start, mem[p].range.end)
  ELSE buildFoodRollup(mem[p].entries, mem[p].range.start, mem[p].range.end)

\* C8: the store changes only in the one upsert step of an invocation, which
\* writes the rollup built from the invocation's entries; an invocation that
\* ends otherwise (missing secrets, a rejected call) has written nothing, and
\* one that ends with 200 has written once.
C8_WrittenOnceWhenBuilt ==
  [][/\ weekly_rollups' # weekly_rollups =>
          \E p \in Collectors :
            /\ pc[p] = "upsert"
            /\ issued[p] = 0 /\ issued'[p] = 1
            /\ response'[p] = 200
            /\ mem[p].rollup = <<BuiltBy(p)>>
            /\ \E row \in weekly_rollups' :
                 /\ weekly_rollups' \ weekly_rollups = {row}
                 /\ Content(row) = ContentOf(BuiltBy(p))
     /\ \A p \in Collectors :
          /\ (pc'[p] = "idle" /\ response'[p] # 200
              /\ <<pc[p], response[p]>> # <<pc'[p], response'[p]>>)
               => (weekly_rollups' = weekly_rollups /\ issued'[p] = 0)
          /\ (response'[p] = 200 /\ pc[p] # "idle") => issued'[p] = 1
          /\ issued'[p] <= 1]_vars

\* the blood-sugar job was left by an exception and wrote no row; the food job
\* enriched an entry and then wrote its rollup
C8_Witness ==
  /\ response["bs1"] = -1 /\ pc["bs1"] = "idle"
  /\ \A row \in weekly_rollups : row.category = "food"
  /\ response["food1"] = 200 /\ issued["food1"] = 1
  /\ notion_updates # {}
  /\ \E row \in weekly_rollups : "fat" \in DOMAIN row.stats_json.body.macroSummary

\* the stored copies of an event
CopiesOf(event) == {row \in badge_events : [c \in DOMAIN badgeArgs(event) |-> row[c]] = badgeArgs(event)}

\* C9: no step removes or rewrites a stored badge event, and an event
\* persisted k times is stored k times.
C9_AppendOnly ==
  /\ [][badge_events \subseteq badge_events']_vars
  /\ [](\A event \in Range(appended) :
          Cardinality(CopiesOf(event))
            = Cardinality({i \in DOMAIN appended : appended[i] = event}))

C9_Witness ==
  /\ \E event \in Range(appended) : Cardinality(CopiesOf(event)) >= 2
  /\ \E key \in DOMAIN writes : writes[key] >= 2
  /\ Cardinality(badge_events) = 3

\* the rollups the month's selection keeps
Included(in) ==
  {i \in DOMAIN in.rollups :
     IF "includePartialWeeks" \in DOMAIN in.options /\ in.options.includePartialWeeks
     THEN in.rollups[i].periodStart <= in.month.end /\ in.rollups[i].periodEnd >= in.month.start
     ELSE in.rollups[i].periodStart >= in.month.start /\ in.rollups[i].periodEnd <= in.month.end}

\* the counts the included rollups report for a day
Reported(in, date) ==
  {in.rollups[i].stats.entriesByDate[date] :
     i \in {j \in Included(in) : /\ "entriesByDate" \in DOMAIN in.rollups[j].stats
                                 /\ date \in DOMAIN in.rollups[j].stats.entriesByDate}}

TestOverlap ==
  [rollups |-> <<WeekRollup("food", 1, 7, 0, <<>>, [entriesByDate |-> (2 :> 1)]),
                 WeekRollup("food", 5, 11, 0, <<>>, [entriesByDate |-> (2 :> 1) @@ (6 :> 2)])>>,
   month |-> [start |-> 1, end |-> 31],
   options |-> [includePartialWeeks |-> TRUE]]

\* C10: the merged entriesByDate has, for each day of the month that an
\* included rollup reports, the maximum of the reported counts, and no other
\* day; totalEntries is the sum of the merged counts; the rollups {02:1} and
\* {02:1, 06:2} merge to {02:1, 06:2} with totalEntries 3.
C10_MergeTakesMax ==
  month_out # <<>> =>
    LET merged == month_out[1].entriesByDate
    IN /\ \A date \in DOMAIN merged : date >= month_in.month.start /\ date <= month_in.month.end
       /\ \A date \in month_in.month.start .. month_in.month.end :
            IF Reported(month_in, date) = {} THEN date \notin DOMAIN merged
            ELSE date \in DOMAIN merged /\ merged[date] = MaxOf(Reported(month_in, date))
       /\ month_out[1].totalEntries = SumSeq([i \in 1..(month_in.month.end - month_in.month.start + 1) |->
                                                CountOn(merged, month_in.month.start + i - 1)])
       /\ month_in = TestOverlap =>
            /\ merged = (2 :> 1) @@ (6 :> 2)
            /\ month_out[1].totalEntries = 3

\* two included rollups report different counts for one day of the month, one
\* of them also reports a day outside it
C10_Witness ==
  /\ month_out # <<>>
  /\ \E date \in DOMAIN month_out[1].entriesByDate :
       Cardinality(Reported(month_in, date)) = 2
  /\ \E i \in Included(month_in) :
       \E date \in DOMAIN EntriesOf(month_in.rollups[i].stats) : date < month_in.month.start
  /\ month_out[1].totalEntries > 0

\* ---------------------------------------------------- monthly summaries
Abs(x) == IF x < 0 THEN -x ELSE x

\* r is n / d rounded to a nearest integer (d > 0)
Nearest(r, n, d) == 2 * Abs(r * d - n) <= d

IsBloodSugarSummary == month_out # <<>> /\ "average" \in DOMAIN month_out[1]
IsFoodSummary == month_out # <<>> /\ "uniqueDays" \in DOMAIN month_out[1]

\* the weight of a rollup in the monthly average: its own totalEntries when
\* it is included and reports an average
WeightOf(in, i) ==
  IF /\ i \in Included(in)
     /\ "avg" \in DOMAIN in.rollups[i].stats
     /\ "totalEntries" \in DOMAIN in.rollups[i].stats
  THEN in.rollups[i].stats.totalEntries ELSE 0

WeightedSumOf(in) ==
  SumSeq([i \in DOMAIN in.rollups |->
            IF WeightOf(in, i) > 0 THEN in.rollups[i].stats.avg * WeightOf(in, i) ELSE 0])

WeightedCountOf(in) == SumSeq([i \in DOMAIN in.rollups |-> WeightOf(in, i)])

TestWeighted ==
  [rollups |-> <<WeekRollup("blood_sugar", 1, 7, 120, <<"A">>,
                            [entriesByDate |-> (1 :> 2), avg |-> 900, min |-> 80,
                             max |-> 110, totalEntries |-> 2]),
                 WeekRollup("blood_sugar", 8, 14, 60, <<"B">>,
                            [entriesByDate |-> (8 :> 2), avg |-> 1100, min |-> 85,
                             max |-> 130, totalEntries |-> 2])>>,
   month |-> [start |-> 1, end |-> 31],
   options |-> <<>>]

\* C11: the monthly blood-sugar average (in tenths) is the sum of avg times
\* totalEntries over the included rollups that have entries, divided by the
\* sum of their totalEntries and rounded to a nearest tenth; it is 0 when no
\* included rollup has entries; (90, 2) and (110, 2) give 100.
C11_WeightedAverage ==
  IsBloodSugarSummary =>
    /\ WeightedCountOf(month_in) = 0 => month_out[1].average = 0
    /\ WeightedCountOf(month_in) > 0 =>
         Nearest(month_out[1].average, WeightedSumOf(month_in), WeightedCountOf(month_in))
    /\ month_in = TestWeighted => month_out[1].average = 1000

\* three included rollups: one without entries, two with different averages
\* and different numbers of entries
C11_Witness ==
  /\ IsBloodSugarSummary
  /\ month_out[1].average > 0
  /\ \E i, j, k \in Included(month_in) :
       /\ WeightOf(month_in, i) = 0 /\ "avg" \in DOMAIN month_in.rollups[i].stats
       /\ WeightOf(month_in, j) > 0
       /\ WeightOf(month_in, k) > WeightOf(month_in, j)
       /\ month_in.rollups[j].stats.avg # month_in.rollups[k].stats.avg

\* C12: rollupsIncluded is the number of rollups with periodStart >=
\* monthStart and periodEnd <= monthEnd when the flag is false or omitted,
\* and of rollups with periodStart <= monthEnd and periodEnd >= monthStart
\* when it is true; the merged days and the xp come from those rollups only.
C12_SelectionModes ==
  month_out # <<>> =>
    /\ month_out[1].rollupsIncluded = Cardinality(Included(month_in))
    /\ \A date \in DOMAIN month_out[1].entriesByDate : Reported(month_in, date) # {}
    /\ (Included(month_in) = {} /\ IsBloodSugarSummary) => month_out[1].xp = 0

\* the flag is omitted; one rollup starts on the first day of the month and is
\* kept, another overlaps the month's end and is left out
C12_Witness ==
  /\ month_out # <<>>
  /\ month_in.options = <<>>
  /\ \E i \in Included(month_in) : month_in.rollups[i].periodStart = month_in.month.start
  /\ \E i \in DOMAIN month_in.rollups \ Included(month_in) :
       /\ month_in.rollups[i].periodStart <= month_in.month.end
       /\ month_in.rollups[i].periodEnd > month_in.month.end

\* C13: the monthly xp is the sum of xp over the included rollups, one term
\* per included rollup.
C13_XpSummed ==
  IsBloodSugarSummary =>
    month_out[1].xp = SumSeq([i \in DOMAIN month_in.rollups |->
                                IF i \in Included(month_in) THEN month_in.rollups[i].xp ELSE 0])

\* two included rollups and one left out, all three with xp
C13_Witness ==
  /\ IsBloodSugarSummary
  /\ Cardinality(Included(month_in)) = 2
  /\ Len(month_in.rollups) = 3
  /\ \A i \in DOMAIN month_in.rollups : month_in.rollups[i].xp > 0

\* the rollups with their stored streak and completionRate wiped
Wiped(rollups) == [i \in DOMAIN rollups |-> [rollups[i] EXCEPT !.streak = 0, !.completionRate = 0]]

DaysOfMonth(in) == in.month.end - in.month.start + 1

\* the number of days at the end of the month that all have a merged count
TrailingDays(in, merged) ==
  CHOOSE k \in 0..DaysOfMonth(in) :
    /\ \A j \in 0..(k - 1) : CountOn(merged, in.month.end - j) > 0
    /\ k < DaysOfMonth(in) => CountOn(merged, in.month.end - k) = 0

\* C14: a monthly completionRate is the merged total over two per day of the
\* month (blood sugar) or the merged days with entries over the days of the
\* month (food), as a rounded percentage; a monthly streak is the number of
\* trailing days of the month with a merged count; the summary is the same
\* when the source rollups' streak and completionRate fields are wiped.
C14_RecomputedFromMerged ==
  month_out # <<>> =>
    LET merged == month_out[1].entriesByDate
        days == DaysOfMonth(month_in)
        total == SumSeq([i \in 1..days |-> CountOn(merged, month_in.month.start + i - 1)])
        unique == Cardinality({date \in DOMAIN merged : merged[date] > 0})
    IN /\ month_out[1].streak = TrailingDays(month_in, merged)
       /\ IsBloodSugarSummary =>
            /\ Nearest(month_out[1].completionRate, total * 100, days * 2)
            /\ month_out[1] \in aggregateBloodSugarMonthOutcomes(Wiped(month_in.rollups),
                                month_in.month.start, month_in.month.end, month_in.options)
       /\ IsFoodSummary =>
            /\ Nearest(month_out[1].completionRate, unique * 100, days)
            /\ month_out[1] = aggregateFoodMonth(Wiped(month_in.rollups),
                                month_in.month.start, month_in.month.end, month_in.options)

\* a summary with a streak of two days or more whose streak and
\* completionRate differ from those of every rollup it includes
C14_Witness ==
  /\ month_out # <<>>
  /\ month_out[1].streak >= 2
  /\ month_out[1].completionRate > 0
  /\ Cardinality(Included(month_in)) >= 2
  /\ \A i \in Included(month_in) :
       /\ month_in.rollups[i].streak # month_out[1].streak
       /\ month_in.rollups[i].completionRate # month_out[1].completionRate

\* ------------------------------------------------- the shared functions
Returned(fn) == result # <<>> /\ call.fn = fn

RangeFunctions ==
  {"listDateRange", "buildBloodSugarRollup", "buildFoodRollup",
   "aggregateBloodSugarMonth", "aggregateFoodMonth"}

RollupBuilders == {"buildBloodSugarRollup", "buildFoodRollup"}
MonthAggregators == {"aggregateBloodSugarMonth", "aggregateFoodMonth"}

\* C15: every rollup a builder returns and every monthly summary has a
\* completionRate that is an integer from 0 to 100.
C15_CompletionRateBounded ==
  /\ (result # <<>> /\ call.fn \in RollupBuilders \cup MonthAggregators) =>
       result[1].completionRate \in 0..100
  /\ month_out # <<>> => month_out[1].completionRate \in 0..100

\* the call's date bounds are inverted
InvertedCall == call.fn \in RangeFunctions /\ call.end < call.start

\* C16 as stated: a call with inverted bounds returns nothing (it fails with
\* InvalidRangeError).
C16_InvalidRangeError == InvertedCall => result = <<>>

\* C16: a call with inverted bounds returns; listDateRange returns the empty
\* sequence, a builder a rollup and an aggregator a summary that carry the
\* bounds as given, with completionRate 0 and streak 0.
C16_InvertedRangeIsEmpty ==
  (result # <<>> /\ InvertedCall) =>
    /\ call.fn = "listDateRange" => result[1] = <<>>
    /\ call.fn \in RollupBuilders =>
         /\ result[1].periodStart = call.start /\ result[1].periodEnd = call.end
         /\ result[1].completionRate = 0 /\ result[1].streak = 0
         /\ result[1].stats.totalEntries = Len(call.entries)
    /\ call.fn \in MonthAggregators =>
         /\ result[1].monthStart = call.start /\ result[1].monthEnd = call.end
         /\ result[1].completionRate = 0 /\ result[1].streak = 0
         /\ result[1].totalEntries = 0 /\ DOMAIN result[1].entriesByDate = {}

\* buildBloodSugarRollup returned a rollup for a range that ends two days
\* before it starts, with entries
C16_Witness ==
  /\ Returned("buildBloodSugarRollup")
  /\ call.end < call.start - 1
  /\ Len(call.entries) > 0
  /\ result[1].stats.totalEntries > 0

\* C17: the streak k is the number of days at the end of dateRange that all
\* have a count above 0: the day before them, if any, has a zero or absent
\* count; k is 0 when the last day has none.
C17_TrailingStreak ==
  Returned("calculateCurrentStreak") =>
    LET range == call.dateRange
        counts == call.dateCounts
        k == result[1]
    IN /\ k \in 0..Len(range)
       /\ \A j \in 0..(k - 1) : CountOn(counts, range[Len(range) - j]) > 0
       /\ k < Len(range) => CountOn(counts, range[Len(range) - k]) = 0
       /\ (Len(range) > 0 /\ CountOn(counts, range[Len(range)]) = 0) => k = 0
       /\ (range = <<1, 2, 3, 4>> /\ counts = (2 :> 1) @@ (3 :> 2) @@ (4 :> 1)) => k = 3
       /\ (range = <<1, 2, 3>> /\ counts = (1 :> 1) @@ (3 :> 1)) => k = 1

\* the streak stopped at a day with no count at all, before which there are
\* days with entries
C17_Witness ==
  /\ Returned("calculateCurrentStreak")
  /\ result[1] >= 1
  /\ Len(call.dateRange) - result[1] >= 2
  /\ call.dateRange[Len(call.dateRange) - result[1]] \notin DOMAIN call.dateCounts
  /\ CountOn(call.dateCounts, call.dateRange[1]) > 0

\* C18: for start <= end, listDateRange(start, end) begins at start, ends at
\* end, each day following the one before; its length is
\* daysBetweenInclusive(start, end); listDateRange(01, 03) is 01, 02, 03.
C18_InclusiveRange ==
  /\ (Returned("listDateRange") /\ call.start <= call.end) =>
       LET dates == result[1]
       IN /\ Len(dates) = daysBetweenInclusive(call.start, call.end)
          /\ Len(dates) = call.end - call.start + 1
          /\ dates[1] = call.start /\ dates[Len(dates)] = call.end
          /\ \A i \in 1..(Len(dates) - 1) : dates[i + 1] = dates[i] + 1
          /\ (call.start = 1 /\ call.end = 3) => dates = <<1, 2, 3>>
  /\ (Returned("daysBetweenInclusive") /\ call.start <= call.end) =>
       result[1] = Len(listDateRange(call.start, call.end))

\* a range of several days that does not start on day 1
C18_Witness ==
  /\ Returned("listDateRange")
  /\ call.start = 2
  /\ Len(result[1]) >= 3

\* C19: calculateXp is 0 when totalCount * 12 is 0, else totalCount * 12
\* times 1.2 for a perfect week times 1.2 for an average between 0 and 100,
\* rounded; calculateXp(14, 95, true) = 242 and calculateXp(0, 0, false) = 0.
C19_Xp ==
  Returned("calculateXp") =>
    LET base == call.totalCount * 12
        s == IF call.perfectWeekStreak THEN 12 ELSE 10
        a == IF call.avg > 0 /\ call.avg < 1000 THEN 12 ELSE 10
    IN /\ base = 0 => result[1] = 0
       /\ base # 0 => Nearest(result[1], base * s * a, 100)
       /\ (call.totalCount = 14 /\ call.avg = 950 /\ call.perfectWeekStreak) => result[1] = 242
       /\ (call.totalCount = 0 /\ call.avg = 0 /\ ~call.perfectWeekStreak) => result[1] = 0

\* both bonuses apply
C19_Witness ==
  /\ Returned("calculateXp")
  /\ call.totalCount = 14 /\ call.avg = 950 /\ call.perfectWeekStreak
  /\ result[1] = 242

\* the range has at least 7 days and every day of it has at least 2 entries
PerfectWeek(dateRange, dateCounts) ==
  /\ Len(dateRange) >= 7
  /\ \A i \in DOMAIN dateRange : CountOn(dateCounts, dateRange[i]) >= 2

\* the badges whose thresholds hold, in the order of display
QualifyingBadges(totalEntries, avg, perfectWeek) ==
  (IF totalEntries >= 7 THEN <<"Mandy-Mode Consistency">> ELSE <<>>)
  \o (IF totalEntries >= 14 THEN <<"Cage Match: Full Week">> ELSE <<>>)
  \o (IF perfectWeek THEN <<"Cage Match: Double-Check Champion">> ELSE <<>>)
  \o (IF 0 < avg /\ avg < 1000 THEN <<"National Treasure: Healthy Average">> ELSE <<>>)

\* C20: the badges of a rollup, and those buildBadges returns for a range
\* and its counts, are exactly the qualifying ones in the fixed order:
\* consistency iff totalEntries >= 7, full week iff totalEntries >= 14,
\* perfect week iff the range has 7 days or more and each has 2 entries or
\* more, healthy average iff 0 < avg < 100.
C20_BadgeThresholds ==
  /\ Returned("buildBadges") =>
       result[1] = QualifyingBadges(call.totalCount, call.avg,
                                    PerfectWeek(call.dateRange, call.dateCounts))
  /\ Returned("buildBloodSugarRollup") =>
       LET days == [i \in 1..(call.end - call.start + 1) |-> call.start + i - 1]
           counts == [d \in Range(days) |->
                        Cardinality({i \in DOMAIN call.entries : call.entries[i].date = d})]
       IN result[1].badges = QualifyingBadges(Len(call.entries), result[1].stats.avg,
                                              PerfectWeek(days, counts))

\* a week with 14 entries or more and a healthy average, but a day with
\* fewer than 2 entries: three badges, the perfect-week one missing
C20_Witness ==
  /\ Returned("buildBloodSugarRollup")
  /\ result[1].badges = <<"Mandy-Mode Consistency", "Cage Match: Full Week",
                          "National Treasure: Healthy Average">>
  /\ call.end - call.start + 1 = 7

\* ------------------------------------------------------ the rollup builders
\* the builder fn applied to a period and its events
Build(fn, entries, start, end) ==
  IF fn = "buildFoodRollup" THEN buildFoodRollup(entries, start, end)
  ELSE buildBloodSugarRollup(entries, start, end)

\* event lists other than the call's: none, and one event on the first day
OtherEvents(fn) ==
  IF fn = "buildFoodRollup" THEN {<<>>, FoodEntries((1 :> 1), 1)}
  ELSE {<<>>, BloodSugarEntries((1 :> 1), 1, 90)}

\* C21: the runId of a built rollup reads category, hyphen, periodStart,
\* hyphen, periodEnd; a build of any events has the same runId exactly when
\* it has the same category, periodStart and periodEnd.
C21_RunId ==
  \A fn \in RollupBuilders :
    Returned(fn) =>
      /\ result[1].runId =
           <<result[1].category, "-", "2026", "-", "01", "-", result[1].periodStart,
             "-", "2026", "-", "01", "-", result[1].periodEnd>>
      /\ \A fn2 \in RollupBuilders, start2 \in 1..2,
            end2 \in (call.end - 1)..(call.end + 1) :
           \A entries2 \in OtherEvents(fn2) :
             (Build(fn2, entries2, start2, end2).runId = result[1].runId)
               <=> (fn2 = fn /\ start2 = call.start /\ end2 = call.end)

\* a food week built from several events has the runId of the same week built
\* from none, and not that of the blood-sugar week
C21_Witness ==
  /\ Returned("buildFoodRollup")
  /\ Len(call.entries) >= 2
  /\ call.end - call.start + 1 = 7
  /\ buildFoodRollup(<<>>, call.start, call.end).runId = result[1].runId
  /\ buildBloodSugarRollup(<<>>, call.start, call.end).runId # result[1].runId

\* C22: a builder called with no events and a period whose start is not
\* after its end returns a rollup with streak 0, completionRate 0, xp 0, no
\* badges and totalEntries 0; the blood-sugar avg, min and max are 0 and the
\* food per-day average, minimum and maximum are 0.
C22_EmptyEvents ==
  \A fn \in RollupBuilders :
    (call.fn = fn /\ call.entries = <<>> /\ call.start <= call.end) =>
      /\ ENABLED NextLogic \/ result # <<>>
      /\ result # <<>> =>
           /\ result[1].streak = 0
           /\ result[1].completionRate = 0
           /\ result[1].xp = 0
           /\ result[1].badges = <<>>
           /\ result[1].stats.totalEntries = 0
           /\ fn = "buildBloodSugarRollup" =>
                /\ result[1].stats.avg = 0
                /\ result[1].stats.min = 0
                /\ result[1].stats.max = 0
           /\ fn = "buildFoodRollup" =>
                /\ result[1].stats.avgEntriesPerDay = 0
                /\ result[1].stats.minEntriesPerDay = 0
                /\ result[1].stats.maxEntriesPerDay = 0

\* the blood-sugar builder has returned for a week of seven days without
\* events, 14 readings expected and all of them missing
C22_Witness ==
  /\ Returned("buildBloodSugarRollup")
  /\ call.entries = <<>>
  /\ call.end - call.start + 1 = 7
  /\ result[1].stats.expected = 14
  /\ result[1].stats.missing = 14

\* the sum of what the first n entries report for the attribute key
RECURSIVE ReportedTotal(_, _, _)
ReportedTotal(entries, key, n) ==
  IF n = 0 THEN 0
  ELSE ReportedTotal(entries, key, n - 1)
       + (IF key \in DOMAIN entries[n].macros THEN entries[n].macros[key] ELSE 0)

\* C23: the macroSummary of a built food rollup has, for each attribute that
\* some entry reports, count = the number of entries reporting it, total =
\* the sum of the reported values and avg (in hundredths) = total / count
\* rounded to the nearest hundredth; an attribute no entry reports is absent.
C23_MacroSummary ==
  Returned("buildFoodRollup") =>
    LET summary == result[1].stats.macroSummary
        reporting(key) == {i \in DOMAIN call.entries : key \in DOMAIN call.entries[i].macros}
    IN /\ DOMAIN summary \subseteq MacroKey
       /\ \A key \in MacroKey :
            IF reporting(key) = {} THEN key \notin DOMAIN summary
            ELSE /\ key \in DOMAIN summary
                 /\ summary[key].count = Cardinality(reporting(key))
                 /\ summary[key].total = ReportedTotal(call.entries, key, Len(call.entries))
                 /\ Nearest(summary[key].avg, summary[key].total * 100, summary[key].count)

\* three entries, one of them without calories: calories are counted over
\* the two that report them, and the protein average is not a whole number
\* of hundredths before rounding
C23_Witness ==
  /\ Returned("buildFoodRollup")
  /\ Len(call.entries) = 3
  /\ {"calories", "protein"} \subseteq DOMAIN result[1].stats.macroSummary
  /\ result[1].stats.macroSummary["calories"].count = 2
  /\ result[1].stats.macroSummary["calories"].total = 202
  /\ result[1].stats.macroSummary["calories"].avg = 10100
  /\ result[1].stats.macroSummary["protein"].count = 3
  /\ result[1].stats.macroSummary["protein"].total = 13
  /\ result[1].stats.macroSummary["protein"].avg = 433
  /\ "fat" \notin DOMAIN result[1].stats.macroSummary

\* ------------------------------------------------- the monthly report page
\* stored rows with a stats or badges column that does not parse
CorruptRows ==
  {row \in weekly_rollups :
     row.stats_json.kind = "malformed" \/ row.badges_json.kind = "malformed"}

\* the stored rows with the per-day counts of the corrupt ones taken away
WithoutCorruptCounts ==
  {IF row.stats_json.kind = "malformed"
   THEN [row EXCEPT !.stats_json = JSONstringifyObject(<<>>)] ELSE row :
     row \in weekly_rollups}

\* C24 as stated: a page request that reads the table while a stored row has
\* a stats or badges column that does not parse reads that row with empty
\* stats or no badges and completes with status 200, its blood-sugar summary
\* counting the entries of the other rows only.
C24_CorruptRowRead ==
  [][\A p \in ReportProcs :
       (pc[p] = "select" /\ pc'[p] = "idle" /\ CorruptRows # {}) =>
         /\ \A row \in CorruptRows :
              /\ row.stats_json.kind = "malformed" => rowToRollup(row).stats = <<>>
              /\ row.badges_json.kind = "malformed" => rowToRollup(row).badges = <<>>
         /\ response'[p] = 200
         /\ result' # <<>>
         /\ result'[1].bloodSugar.entriesByDate =
              mergeEntriesByDate(
                SelectSeq(fetchRollups(WithoutCorruptCounts, mem[p].range.start,
                                       mem[p].range.end, mem[p].includePartialWeeks),
                          LAMBDA r : r.category = "blood_sugar"),
                mem[p].range.start, mem[p].range.end)]_vars

\* --------------------------------------------------------- range queries
\* C25: the rows getWeeklyRollups returns are stored rows of the category
\* asked for with period_start >= start and period_end <= end, every such
\* stored row is among them, and they come in ascending period_start.
C25_RangeQuery ==
  Returned("getWeeklyRollups") =>
    LET rows == result[1]
    IN /\ \A i \in DOMAIN rows :
            /\ rows[i] \in call.table
            /\ rows[i].category = call.category
            /\ rows[i].period_start >= call.start
            /\ rows[i].period_end <= call.end
       /\ \A row \in call.table :
            (/\ row.category = call.category
             /\ row.period_start >= call.start
             /\ row.period_end <= call.end) => \E i \in DOMAIN rows : rows[i] = row
       /\ \A i, j \in DOMAIN rows : i < j => rows[i].period_start < rows[j].period_start

\* two of three stored rows are returned, the later-stored one first; the
\* third is of the other category and lies in the range too
C25_Witness ==
  /\ Returned("getWeeklyRollups")
  /\ Cardinality(call.table) = 3
  /\ Len(result[1]) = 2
  /\ result[1][1].id > result[1][2].id
  /\ \E row \in call.table :
       /\ row.category # call.category
       /\ row.period_start >= call.start
       /\ row.period_end <= call.end

\* C26: a step of the monthly report page leaves the rollup table, the
\* badge-event table, their id counters and the schema as they were, and a
\* step in which an aggregator returns its summary leaves the rollups it was
\* given as they were.
C26_ReportOnlyReads ==
  [][/\ (\E p \in ReportProcs : pc'[p] # pc[p] \/ response'[p] # response[p]) =>
          /\ weekly_rollups' = weekly_rollups
          /\ badge_events' = badge_events
          /\ rollup_seq' = rollup_seq
          /\ badge_seq' = badge_seq
          /\ schema' = schema
     /\ month_out' # month_out => month_in' = month_in]_vars

\* the page has answered a request while a rollup was stored, and an
\* aggregator has returned the summary of a non-empty list of rollups
C26_Witness ==
  /\ pc["report1"] = "idle"
  /\ response["report1"] # 0
  /\ weekly_rollups # {}
  /\ month_out # <<>>
  /\ month_in.rollups # <<>>
  /\ month_out[1].rollupsIncluded > 0

\* ------------------------------------------------- the persist endpoint
\* the request in call is a POST that passes the token check and whose body
\* parses to a structurally valid payload
Admitted ==
  /\ call.method = "POST"
  /\ call.tokenConfigured => call.header = <<"Bearer", "secret">>
  /\ call.text.kind = "object"
  /\ "rollup" \in DOMAIN call.text.body
  /\ \A field \in {"category", "periodStart", "periodEnd", "streak", "completionRate",
                   "xp", "badges", "stats", "runId"} :
       field \in DOMAIN call.text.body.rollup
  /\ "badgeEvents" \in DOMAIN call.text.body =>
       \A i \in DOMAIN call.text.body.badgeEvents :
         \A field \in {"category", "badge", "periodStart", "periodEnd", "awardedAt"} :
           field \in DOMAIN call.text.body.badgeEvents[i]

C28_NoOverwrite ==
  [][\A p \in FoodProcs :
       (pc[p] = "update" /\ mem'[p].enriched = mem[p].enriched + 1) =>
         LET entry == mem[p].entries[mem[p].i]
         IN \A update \in notion_updates' \ notion_updates :
              /\ update.pageId = entry.pageId
              /\ \E key \in {"calories", "protein", "carbs", "fat"} :
                   key \notin DOMAIN entry.macros
              /\ \A key \in DOMAIN entry.macros :
                   PROPERTY_NAMES(key) \notin DOMAIN update.properties]_vars

\* ------------------------------------------- strict and inclusive selection
\* the summary the same aggregator gives for the same input in inclusive mode
InclusiveSummary ==
  IF IsBloodSugarSummary
  THEN aggregateBloodSugarMonth(month_in.rollups, month_in.month.start,
                                month_in.month.end, [includePartialWeeks |-> TRUE])
  ELSE aggregateFoodMonth(month_in.rollups, month_in.month.start,
                          month_in.month.end, [includePartialWeeks |-> TRUE])

WellFormedMonthInput ==
  /\ month_in.month.start <= month_in.month.end
  /\ \A i \in DOMAIN month_in.rollups :
       month_in.rollups[i].periodStart <= month_in.rollups[i].periodEnd

\* C29: for a month with monthStart <= monthEnd and rollups with
\* periodStart <= periodEnd, every rollup selected in strict mode is selected
\* in inclusive mode, and rollupsIncluded, every per-day count of
\* entriesByDate and totalEntries of a strict summary are at most those the
\* inclusive mode gives for the same input.
C29_InclusiveCoversStrict ==
  (month_out # <<>> /\ ~includePartialWeeksOf(month_in.options) /\ WellFormedMonthInput) =>
    LET strict == month_out[1]
        inclusive == InclusiveSummary
    IN /\ \A i \in DOMAIN month_in.rollups :
            (month_in.rollups[i].periodStart >= month_in.month.start
               /\ month_in.rollups[i].periodEnd <= month_in.month.end)
            => month_in.rollups[i] \in
                 Range(filterRollups(month_in.rollups, month_in.month.start,
                                     month_in.month.end, TRUE))
       /\ strict.rollupsIncluded <= inclusive.rollupsIncluded
       /\ DOMAIN strict.entriesByDate \subseteq DOMAIN inclusive.entriesByDate
       /\ \A date \in DOMAIN strict.entriesByDate :
            strict.entriesByDate[date] <= inclusive.entriesByDate[date]
       /\ strict.totalEntries <= inclusive.totalEntries

\* a strict summary that leaves out a week straddling the month's edge, which
\* the inclusive mode counts: fewer rollups, fewer days and fewer entries
C29_Witness ==
  /\ month_out # <<>>
  /\ ~includePartialWeeksOf(month_in.options)
  /\ WellFormedMonthInput
  /\ month_out[1].rollupsIncluded >= 1
  /\ month_out[1].rollupsIncluded < InclusiveSummary.rollupsIncluded
  /\ month_out[1].totalEntries >= 1
  /\ month_out[1].totalEntries < InclusiveSummary.totalEntries
  /\ DOMAIN month_out[1].entriesByDate # DOMAIN InclusiveSummary.entriesByDate

\* ------------------------------------------------- the order of the rollups
\* the rollups of the input in every order
Reorderings(rollups) ==
  {[i \in DOMAIN rollups |-> rollups[f[i]]] : f \in Permutations(DOMAIN rollups)}

\* the fields of a summary that are sums, extremes or sets of whole numbers
WholeFields(summary) ==
  [entriesByDate |-> summary.entriesByDate,
   totalEntries |-> summary.totalEntries,
   min |-> summary.min,
   max |-> summary.max,
   xp |-> summary.xp,
   completionRate |-> summary.completionRate,
   streak |-> summary.streak,
   rollupsIncluded |-> summary.rollupsIncluded,
   badges |-> Range(summary.badges)]

\* C30 as stated: the blood-sugar summary of a month does not depend on the
\* order of the rollups: for every reordering of the input, entriesByDate,
\* totalEntries, average, min, max, xp, completionRate, streak,
\* rollupsIncluded and the set of badges are those of the summary returned.
C30_OrderIndependent ==
  IsBloodSugarSummary =>
    \A reordered \in Reorderings(month_in.rollups) :
      \A summary \in aggregateBloodSugarMonthOutcomes(reordered, month_in.month.start,
                                                      month_in.month.end, month_in.options) :
        /\ WholeFields(summary) = WholeFields(month_out[1])
        /\ summary.average = month_out[1].average

====
